---- MODULE Spec2Model ----
(***************************************************************************)
(* A model of spruthub-cli: the schema-driven parameter engine             *)
(* (commands/dynamic/parameter-handling.ts), the scenario codec            *)
(* (utils/scenario-code.ts), the RPC client wrapper (utils/client.ts) and  *)
(* the command handlers that hold the connection (method commands, push,   *)
(* pull, deploy).                                                          *)
(***************************************************************************)
EXTENDS Integers, Sequences, FiniteSets, TLC

VARIABLES
  schema,          \* the MethodSchema a parameter operation works on
  options,         \* Commander's options object: params, file, per-leaf flags
  positionalArgs,  \* the positional CLI arguments, in order
  pstep,           \* "input" | "positional" | "declared" | "built" | "named"
  positional,      \* the list getPositionalParameters returned
  built,           \* what buildParams produced: a value or a thrown error
  declared,        \* the options addSchemaOptions declared on the command
  methodName,      \* the dotted name of the method being registered
  commandName,     \* the name its subcommand was registered under
  scenarioData,    \* the ScenarioData handed to extractScenarioCode
  dir,             \* the scenario directory: file name -> content
  cstep,           \* "input" | "extracted" | "edited" | "injected" | "injectedEdited"
                   \* | "dir" | "checked" | "validated" | "injectedValidated"
  extracted,       \* how extractScenarioCode ended
  injected,        \* what injectScenarioCode returned or threw
  hasCode,         \* what hasExtractedCode returned or threw
  validated,       \* what validateScenarioDirectory returned or threw
  cmd,             \* the command invoked: method, push, pull, pullAll, deploy
  pc,              \* where the command's handler stands
  caller,          \* "deploy" while pushCommand runs inside deployCommand
  client,          \* the wrapper's client field: 0 is null, else the Sprut object
  isConnected,     \* the wrapper's isConnected field
  live,            \* the Sprut objects whose connection is established and open
  created,         \* how many Sprut objects the wrapper has created
  opened,          \* how many connections have been established
  closed,          \* how many established connections close() has closed
  disconnects,     \* how many times a handler has run client.disconnect()
  closeCalls,      \* how many times disconnect() has called close()
  lastCall,        \* the last call made on the wrapper directly, and its result
  credentials,     \* the profile each Sprut object got its credentials from
  config,          \* ConfigManager's in-memory config, or null
  configFile,      \* what config.json holds, if it exists
  configCall,      \* the last call made on the ConfigManager, and how it ended
  files,           \* filesToProcess of pushCommand
  cur,             \* the position of the loop over files or listed scenarios
  localData,       \* the local scenario of the file being pushed
  errorCount,      \* pushCommand's errorCount
  updatedCount,    \* pushCommand's updatedCount
  skippedCount,    \* pushCommand's skippedCount
  ops,             \* the steps of the push made so far, each with its file
                   \* (read, fetch, equal/differs, yes/no, update, updated,
                   \* verify, nowEqual/stillDiffers)
  firstError,      \* the file at which errorCount was first incremented
  force,           \* options.force of pushCommand
  remoteData,      \* the remote scenario handed to compareScenarios
  compared,        \* what compareScenarios was called with and returned
  listed           \* how many scenarios scenario.list returned to pull

regVars == <<declared, methodName, commandName>>

paramVars ==
  <<schema, options, positionalArgs, pstep, positional, built, regVars>>

dirVars == <<hasCode, validated>>

codecVars == <<scenarioData, dir, cstep, extracted, injected, dirVars>>

clientVars ==
  <<client, isConnected, live, created, opened, closed, disconnects, closeCalls>>

configVars == <<config, configFile, configCall>>

callVars == <<lastCall, credentials, configVars>>

compareVars == <<remoteData, compared>>

pushVars ==
  <<files, cur, localData, errorCount, updatedCount, skippedCount, ops, firstError,
    force, compareVars>>

cmdVars == <<cmd, pc, caller, clientVars, pushVars, listed, callVars>>

vars == <<paramVars, codecVars, cmdVars>>

\* the variables of a part of the program that is not running
RegIdle ==
  /\ declared = <<>>
  /\ methodName = <<>>
  /\ commandName = [k |-> "none"]

ParamIdle ==
  /\ schema = [hasParams |-> FALSE]
  /\ options = [params |-> [k |-> "undefined"]]
  /\ positionalArgs = <<>>
  /\ pstep = "idle"
  /\ positional = <<>>
  /\ built = [ok |-> FALSE]
  /\ RegIdle

DirIdle ==
  /\ hasCode = [ok |-> FALSE]
  /\ validated = [ok |-> FALSE]

CodecIdle ==
  /\ scenarioData = [k |-> "undefined"]
  /\ dir = <<>>
  /\ cstep = "idle"
  /\ extracted = [ok |-> FALSE]
  /\ injected = [ok |-> FALSE]
  /\ DirIdle

ClientFresh ==
  /\ client = 0
  /\ isConnected = FALSE
  /\ live = {}
  /\ created = 0
  /\ opened = 0
  /\ closed = 0
  /\ disconnects = 0
  /\ closeCalls = 0

ConfigIdle ==
  /\ config = [loaded |-> FALSE]
  /\ configFile = [exists |-> FALSE]
  /\ configCall = [n |-> 0]

CallIdle ==
  /\ lastCall = [n |-> 0]
  /\ credentials = <<>>
  /\ ConfigIdle

CmdIdle ==
  /\ cmd = "none"
  /\ pc = "idle"
  /\ caller = "none"
  /\ ClientFresh
  /\ files = <<>>
  /\ cur = 0
  /\ localData = [k |-> "undefined"]
  /\ errorCount = 0
  /\ updatedCount = 0
  /\ skippedCount = 0
  /\ ops = <<>>
  /\ firstError = 0
  /\ force = FALSE
  /\ remoteData = [k |-> "undefined"]
  /\ compared = [called |-> FALSE]
  /\ listed = 0
  /\ CallIdle

(***************************************************************************)
(* JavaScript values.  Every value is a record tagged by k.  An object is  *)
(* the sequence of its <<key, value>> entries in insertion order, a string *)
(* is the sequence of its characters.                                      *)
(***************************************************************************)
Num(n) == [k |-> "num", v |-> n]
Str(s) == [k |-> "str", v |-> s]
Bool(b) == [k |-> "bool", v |-> b]
Obj(entries) == [k |-> "obj", v |-> entries]
Arr(items) == [k |-> "arr", v |-> items]
Undefined == [k |-> "undefined"]
Null == [k |-> "null"]
EmptyObj == Obj(<<>>)

\* a string that is not JSON, and the JSON text of a value in a layout
\* ("hub": as the device sent it, "pretty": indented by 2, "compact")
Raw(s) == [k |-> "raw", v |-> s]

JsonText(fmt, value) == [k |-> "json", fmt |-> fmt, v |-> value]

IsObj(x) == x.k = "obj"

Keys(o) == {o.v[i][1] : i \in 1..Len(o.v)}

Has(o, key) == key \in Keys(o)

\* o[key], undefined when the key is absent
Get(o, key) ==
  IF Has(o, key)
    THEN o.v[CHOOSE i \in 1..Len(o.v) : o.v[i][1] = key][2]
    ELSE Undefined

\* o[key] = val: an existing key keeps its place, a new key goes last
Set(o, key, val) ==
  IF Has(o, key)
    THEN Obj([i \in 1..Len(o.v) |->
               IF o.v[i][1] = key THEN <<key, val>> ELSE o.v[i]])
    ELSE Obj(Append(o.v, <<key, val>>))

RECURSIVE SpreadEntries(_, _)
SpreadEntries(o, entries) ==
  IF entries = <<>> THEN o
  ELSE SpreadEntries(Set(o, Head(entries)[1], Head(entries)[2]), Tail(entries))

\* { ...a, ...b }: a shallow merge, b's values win
Spread(a, b) == SpreadEntries(a, b.v)

\* JavaScript truthiness of a value
Truthy(x) ==
  CASE x.k = "undefined" -> FALSE
    [] x.k = "num" -> x.v # 0
    [] x.k = "str" -> x.v # <<>> /\ x.v # Raw("")
    [] x.k = "bool" -> x.v
    [] OTHER -> TRUE

\* deep equality of two values: objects compare as key -> value maps
RECURSIVE DeepEqual(_, _)
DeepEqual(x, y) ==
  IF x.k # y.k THEN FALSE
  ELSE IF x.k = "obj"
    THEN /\ Keys(x) = Keys(y)
         /\ \A key \in Keys(x) : DeepEqual(Get(x, key), Get(y, key))
  ELSE IF x.k = "arr"
    THEN /\ Len(x.v) = Len(y.v)
         /\ \A i \in 1..Len(x.v) : DeepEqual(x.v[i], y.v[i])
    ELSE x = y

(***************************************************************************)
(* parseInt: optional sign, then the longest prefix of decimal digits; NaN *)
(* when there is none.  (Leading blanks and the 0x prefix that parseInt    *)
(* accepts without a radix are not among the texts modelled.)              *)
(***************************************************************************)
DigitChars == <<"0", "1", "2", "3", "4", "5", "6", "7", "8", "9">>

IsDigit(c) == \E d \in 1..Len(DigitChars) : DigitChars[d] = c

DigitValue(c) == (CHOOSE d \in 1..Len(DigitChars) : DigitChars[d] = c) - 1

RECURSIVE ParseDigits(_, _, _)
ParseDigits(text, acc, seen) ==
  IF text # <<>> /\ IsDigit(Head(text))
    THEN ParseDigits(Tail(text), acc * 10 + DigitValue(Head(text)), TRUE)
    ELSE [nan |-> ~seen, n |-> acc]

ParseInt(text) ==
  IF text # <<>> /\ Head(text) = "-"
    THEN LET r == ParseDigits(Tail(text), 0, FALSE)
         IN [nan |-> r.nan, n |-> 0 - r.n]
    ELSE ParseDigits(text, 0, FALSE)

(***************************************************************************)
(* Method schemas.  A ParameterShape node keeps its properties in          *)
(* insertion order (Object.keys / Object.entries order) and its required   *)
(* names as the array they are.                                            *)
(***************************************************************************)
Leaf(t) ==
  [type |-> t, hasProperties |-> FALSE, properties |-> <<>>,
   hasRequired |-> FALSE, required |-> <<>>]

ObjectShape(props, req) ==
  [type |-> "object", hasProperties |-> TRUE, properties |-> props,
   hasRequired |-> TRUE, required |-> req]

\* an object node that carries no required list
ObjectShapeNoRequired(props) ==
  [type |-> "object", hasProperties |-> TRUE, properties |-> props,
   hasRequired |-> FALSE, required |-> <<>>]

Prop(key, node) == [key |-> key, prop |-> node]

MethodWithParams(node) == [hasParams |-> TRUE, params |-> node]

MethodWithoutParams == [hasParams |-> FALSE, params |-> Leaf("object")]

PositionalTypes == {"string", "number", "integer"}

FlagTypes == {"string", "number", "integer", "boolean"}

(***************************************************************************)
(* a.name.localeCompare(b.name) on the names of the model, which are       *)
(* lower-case ASCII words: the collation order of such words is their      *)
(* alphabetical order, listed here.                                        *)
(***************************************************************************)
NameOrder == <<"a", "b", "id", "index", "name", "run", "scenario">>

NameRank(n) == CHOOSE i \in 1..Len(NameOrder) : NameOrder[i] = n

LocaleCompare(x, y) == NameRank(x) - NameRank(y)

\* the comparator handed to sort(): path depth first, then the name
PositionalComparator(a, b) ==
  IF Len(a.path) # Len(b.path)
    THEN Len(a.path) - Len(b.path)
    ELSE LocaleCompare(a.name, b.name)

\* Array.prototype.sort is stable: x goes after every entry not greater
RECURSIVE InsertSorted(_, _)
InsertSorted(sorted, x) ==
  IF sorted = <<>> THEN <<x>>
  ELSE IF PositionalComparator(Head(sorted), x) <= 0
    THEN <<Head(sorted)>> \o InsertSorted(Tail(sorted), x)
    ELSE <<x>> \o sorted

RECURSIVE SortPositional(_, _)
SortPositional(sorted, rest) ==
  IF rest = <<>> THEN sorted
  ELSE SortPositional(InsertSorted(sorted, Head(rest)), Tail(rest))

\* obj.required || requiredFields, where requiredFields defaults to []
RequiredOf(obj) == IF obj.hasRequired THEN obj.required ELSE <<>>

\* array.includes(x)
Includes(array, x) == \E i \in 1..Len(array) : array[i] = x

IsPositionalCandidateAnyRequired(entry, required) ==
  entry.prop.type \in PositionalTypes

\* isRequired && (type is string, number or integer)
IsPositionalCandidate(entry, required) ==
  /\ Includes(required, entry.key)
  /\ entry.prop.type \in PositionalTypes

RECURSIVE SearchParams(_, _)
RECURSIVE SearchEntries(_, _, _)
SearchEntries(entries, path, required) ==
  IF entries = <<>> THEN <<>>
  ELSE LET e == Head(entries)
           currentPath == Append(path, e.key)
           found ==
             IF e.prop.hasProperties
               THEN SearchParams(e.prop, currentPath)
               ELSE IF IsPositionalCandidate(e, required)
                 THEN << [name |-> e.key, path |-> currentPath,
                          type |-> e.prop.type, required |-> TRUE] >>
                 ELSE <<>>
       IN found \o SearchEntries(Tail(entries), path, required)

SearchParams(obj, path) ==
  IF ~obj.hasProperties THEN <<>>
  ELSE SearchEntries(obj.properties, path, RequiredOf(obj))

GetPositionalParameters(methodSchema) ==
  IF ~methodSchema.hasParams \/ ~methodSchema.params.hasProperties
    THEN <<>>
    ELSE SortPositional(<<>>, SearchParams(methodSchema.params, <<>>))

(***************************************************************************)
(* The schemas the positional resolver is run on: every shape with up to   *)
(* MaxProps top-level properties, each a primitive leaf or an object of up *)
(* to MaxNested primitive leaves, with every choice of required names and  *)
(* every insertion order; and the shapes the specification names.          *)
(***************************************************************************)
MaxProps == 2

MaxNested == 1

SchemaKeys == {"a", "id"}

DistinctSeqs(S, n) ==
  UNION { {q \in [1..m -> S] : \A i, j \in 1..m : i # j => q[i] # q[j]} :
          m \in 0..n }

\* the names of S that are in keys, as an array in the order of keys
RequiredArray(keys, S) == SelectSeq(keys, LAMBDA key : key \in S)

SeqRange(q) == {q[i] : i \in 1..Len(q)}

ShapeOf(ks, ns, req) ==
  ObjectShape([i \in 1..Len(ks) |-> Prop(ks[i], ns[i])], RequiredArray(ks, req))

ShapesOver(maxLen, nodes) ==
  UNION { UNION { { ShapeOf(ks, ns, req) : req \in SUBSET SeqRange(ks) } :
                  ns \in [1..Len(ks) -> nodes] } :
          ks \in DistinctSeqs(SchemaKeys, maxLen) }

LeafShapes == {Leaf(t) : t \in FlagTypes}

NestedShapes == ShapesOver(MaxNested, LeafShapes)

\* one required top-level string leaf and one required number leaf at
\* scenario.run.index
ScenarioRunSchema ==
  MethodWithParams(ObjectShape(
    << Prop("name", Leaf("string")),
       Prop("scenario", ObjectShape(
         << Prop("run", ObjectShape(<< Prop("index", Leaf("number")) >>,
                                    <<"index">>)) >>,
         <<"run">>)) >>,
    <<"name", "scenario">>))

\* params present but without properties
PropertylessSchema == MethodWithParams(Leaf("object"))

NamedSchemas == {ScenarioRunSchema, PropertylessSchema, MethodWithoutParams}

NoOptions == [params |-> Undefined, file |-> Undefined, flags |-> EmptyObj]

NotBuilt == [ok |-> FALSE, err |-> "not built", name |-> "", v |-> Undefined]

InitPos ==
  /\ \/ schema \in NamedSchemas
     \/ \E ks \in DistinctSeqs(SchemaKeys, MaxProps) :
          \E ns \in [1..Len(ks) -> LeafShapes \cup NestedShapes] :
            \E req \in SUBSET SeqRange(ks) :
              schema = MethodWithParams(ShapeOf(ks, ns, req))
  /\ options = NoOptions
  /\ positionalArgs = <<>>
  /\ pstep = "input"
  /\ positional = <<>>
  /\ built = NotBuilt
  /\ RegIdle
  /\ CodecIdle
  /\ CmdIdle

\* a caller (addMethodCommand, mergePositionalParameters) resolves the
\* positional parameters of the schema
ResolvePositional ==
  /\ pstep = "input"
  /\ positional' = GetPositionalParameters(schema)
  /\ pstep' = "positional"
  /\ UNCHANGED <<schema, options, positionalArgs, built, regVars>>
  /\ UNCHANGED <<codecVars, cmdVars>>

\* cmd.option(flags): the flag is named after the leaf; leaf is the place
\* in the schema of the leaf the call was made for
Option(key, type, path) ==
  [flag |-> key,
   arg |-> CASE type = "string" -> "<value>"
             [] type \in {"number", "integer"} -> "<number>"
             [] OTHER -> "",
   leaf |-> path]

\* the options declared for the entries of a properties object, in order
RECURSIVE AddSchemaOptions(_, _, _)
AddSchemaOptions(entries, path, excludeParams) ==
  IF entries = <<>> THEN <<>>
  ELSE LET e == Head(entries)
           here ==
             IF e.prop.hasProperties
               THEN AddSchemaOptions(e.prop.properties, Append(path, e.key),
                                     excludeParams)
               ELSE IF e.prop.type \in FlagTypes /\ ~Includes(excludeParams, e.key)
                 THEN << Option(e.key, e.prop.type, Append(path, e.key)) >>
                 ELSE <<>>
       IN here \o AddSchemaOptions(Tail(entries), path, excludeParams)

\* positionalParams.map(p => p.name)
PositionalParamNames(positionalParams) ==
  [i \in 1..Len(positionalParams) |-> positionalParams[i].name]

\* addMethodCommand declares the options of the schema on the new command,
\* leaving out the names of the positional parameters
AddMethodCommand ==
  /\ pstep = "input"
  /\ positional' = GetPositionalParameters(schema)
  /\ declared' =
       IF schema.hasParams /\ schema.params.hasProperties
         THEN AddSchemaOptions(schema.params.properties, <<>>,
                               PositionalParamNames(positional'))
         ELSE <<>>
  /\ pstep' = "declared"
  /\ UNCHANGED <<schema, options, positionalArgs, built, methodName, commandName>>
  /\ UNCHANGED <<codecVars, cmdVars>>

NextPos == ResolvePositional \/ AddMethodCommand

SpecPos == InitPos /\ [][NextPos]_vars

(***************************************************************************)
(* The shape tree seen as a set of paths.                                  *)
(***************************************************************************)
RECURSIVE NodePaths(_, _)
NodePaths(node, path) ==
  IF ~node.hasProperties THEN {}
  ELSE UNION { {Append(path, node.properties[i].key)}
                 \cup NodePaths(node.properties[i].prop,
                                Append(path, node.properties[i].key)) :
               i \in 1..Len(node.properties) }

SchemaPaths(ms) ==
  IF ms.hasParams THEN NodePaths(ms.params, <<>>) ELSE {}

PropertyNamed(node, key) ==
  node.properties[CHOOSE i \in 1..Len(node.properties) :
                    node.properties[i].key = key].prop

RECURSIVE NodeAt(_, _)
NodeAt(node, path) ==
  IF path = <<>> THEN node
  ELSE NodeAt(PropertyNamed(node, Head(path)), Tail(path))

ParentPath(path) == SubSeq(path, 1, Len(path) - 1)

LastOf(path) == path[Len(path)]

\* the leaves that are required by their own enclosing object and primitive
RequiredPrimitiveLeaves(ms) ==
  { p \in SchemaPaths(ms) :
      /\ ~NodeAt(ms.params, p).hasProperties
      /\ NodeAt(ms.params, p).type \in {"string", "number", "integer"}
      /\ NodeAt(ms.params, ParentPath(p)).hasRequired
      /\ Includes(NodeAt(ms.params, ParentPath(p)).required, LastOf(p)) }

\* every schema that differs from ms only in the insertion order of the
\* keys of its properties objects, at any nesting level
RECURSIVE KeyOrderVariants(_)
KeyOrderVariants(node) ==
  IF ~node.hasProperties THEN {node}
  ELSE LET n == Len(node.properties)
           inner == { f \in [1..n -> UNION {KeyOrderVariants(node.properties[i].prop) :
                                              i \in 1..n}] :
                        \A i \in 1..n :
                          f[i] \in KeyOrderVariants(node.properties[i].prop) }
       IN { [node EXCEPT !.properties =
               [i \in 1..n |-> Prop(node.properties[perm[i]].key, f[perm[i]])]] :
            f \in inner, perm \in Permutations(1..n) }

SchemaVariants(ms) ==
  IF ms.hasParams
    THEN {MethodWithParams(node) : node \in KeyOrderVariants(ms.params)}
    ELSE {ms}

\* C7: getPositionalParameters returns its entries sorted by path depth
\* ascending and, at equal depth, by name; the order is total, that is, no
\* two entries of one result tie on (depth, name).
C7_SortedTotalOrder ==
  pstep = "positional" =>
    \A i, j \in 1..Len(positional) :
      i < j =>
        \/ Len(positional[i].path) < Len(positional[j].path)
        \/ /\ Len(positional[i].path) = Len(positional[j].path)
           /\ NameRank(positional[i].name) < NameRank(positional[j].name)

\* C8: the list getPositionalParameters returns is the same on a repeated
\* call and for every schema that differs only in the insertion order of
\* the keys of its properties objects.
C8_InsertionOrderInvariant ==
  pstep = "positional" =>
    \A other \in SchemaVariants(schema) :
      GetPositionalParameters(other) = positional

\* C9: getPositionalParameters returns exactly the leaves that their own
\* enclosing object lists as required and whose type is string, number or
\* integer, each once, with its name and type; never a boolean or an
\* object; nothing at all for a method without params or properties.
C9_ExactlyRequiredPrimitiveLeaves ==
  pstep = "positional" =>
    /\ {positional[i].path : i \in 1..Len(positional)}
         = RequiredPrimitiveLeaves(schema)
    /\ Len(positional) = Cardinality(RequiredPrimitiveLeaves(schema))
    /\ \A i \in 1..Len(positional) :
         /\ positional[i].type = NodeAt(schema.params, positional[i].path).type
         /\ positional[i].type \notin {"boolean", "object"}
         /\ positional[i].name = LastOf(positional[i].path)
         /\ positional[i].required
    /\ (~schema.hasParams \/ ~schema.params.hasProperties) => positional = <<>>

\* a required primitive leaf was returned while a required boolean leaf
\* of the same schema was not
C9_Witness ==
  /\ pstep = "positional"
  /\ Len(positional) = 1
  /\ \E p \in SchemaPaths(schema) :
       /\ NodeAt(schema.params, p).type = "boolean"
       /\ Includes(NodeAt(schema.params, ParentPath(p)).required, LastOf(p))

\* the leaves of the schema of type string, number, integer or boolean
PrimitiveLeaves(ms) ==
  { p \in SchemaPaths(ms) :
      /\ ~NodeAt(ms.params, p).hasProperties
      /\ NodeAt(ms.params, p).type \in FlagTypes }

\* the declarations made for the leaf at path
DeclaredFor(path) == {i \in 1..Len(declared) : declared[i].leaf = path}

\* C15: exactly one flag is declared for each primitive leaf (string,
\* number, integer, boolean) of the parameter shape that is not a positional
\* parameter, named after the leaf, and none for a leaf that is positional.
C15_OneFlagPerNonPositionalLeaf ==
  pstep = "declared" =>
    \A p \in PrimitiveLeaves(schema) :
      IF \E i \in 1..Len(positional) : positional[i].path = p
        THEN DeclaredFor(p) = {}
        ELSE /\ Cardinality(DeclaredFor(p)) = 1
             /\ \A i \in DeclaredFor(p) : declared[i].flag = LastOf(p)

(***************************************************************************)
(* The registration of a schema method as a subcommand of its category.    *)
(* A method name is a text: a sequence of characters.                      *)
(***************************************************************************)
MaxSegments == 3

SegmentTexts == {<<"a">>, <<"b">>, <<"a", "b">>, <<"b", "a">>}

\* segments.join('.')
RECURSIVE Join(_)
Join(segments) ==
  IF Len(segments) = 1 THEN segments[1]
  ELSE segments[1] \o <<".">> \o Join(Tail(segments))

\* the dotted names of up to MaxSegments segments
MethodNames ==
  UNION { {Join(segments) : segments \in [1..n -> SegmentTexts]} :
          n \in 1..MaxSegments }

\* text.split('.'): segment is the one being read, done the ones read
RECURSIVE SplitFrom(_, _, _)
SplitFrom(chars, segment, done) ==
  IF chars = <<>> THEN Append(done, segment)
  ELSE IF Head(chars) = "."
    THEN SplitFrom(Tail(chars), <<>>, Append(done, segment))
    ELSE SplitFrom(Tail(chars), Append(segment, Head(chars)), done)

Split(chars) == SplitFrom(chars, <<>>, <<>>)

\* the text after the first dot
RECURSIVE RestAfterFirstDot(_)
RestAfterFirstDot(chars) ==
  IF chars = <<>> THEN Undefined
  ELSE IF Head(chars) = "." THEN Str(Tail(chars))
  ELSE RestAfterFirstDot(Tail(chars))

\* methodParts[1], undefined when the name has no dot
CommandNameOf(name) ==
  LET methodParts == Split(name)
  IN IF Len(methodParts) >= 2 THEN Str(methodParts[2]) ELSE Undefined

InitReg ==
  /\ schema \in NamedSchemas
  /\ options = NoOptions
  /\ positionalArgs = <<>>
  /\ pstep = "input"
  /\ positional = <<>>
  /\ built = NotBuilt
  /\ declared = <<>>
  /\ methodName \in MethodNames
  /\ commandName = [k |-> "none"]
  /\ CodecIdle
  /\ CmdIdle

\* addCategoryCommands registers one method of the category: it derives the
\* command name and has addMethodCommand declare the options
AddCategoryCommand ==
  /\ pstep = "input"
  /\ commandName' = CommandNameOf(methodName)
  /\ positional' = GetPositionalParameters(schema)
  /\ declared' =
       IF schema.hasParams /\ schema.params.hasProperties
         THEN AddSchemaOptions(schema.params.properties, <<>>,
                               PositionalParamNames(positional'))
         ELSE <<>>
  /\ pstep' = "named"
  /\ UNCHANGED <<schema, options, positionalArgs, built, methodName>>
  /\ UNCHANGED <<codecVars, cmdVars>>

NextReg == AddCategoryCommand

SpecReg == InitReg /\ [][NextReg]_vars

\* C16: the registered subcommand name is the whole text after the first
\* '.' of the dotted method name; for a name with more than one dot it is
\* everything after the first dot.
C16_NameAfterFirstDot ==
  (pstep = "named" /\ \E i \in 1..Len(methodName) : methodName[i] = ".")
    => commandName = RestAfterFirstDot(methodName)

(***************************************************************************)
(* Texts.  A text that JSON.parse accepts is known by the value it parses  *)
(* to and by its layout (JSON.stringify(v) is compact, JSON.stringify(v,   *)
(* null, 2) is indented); any other text is raw.                           *)
(***************************************************************************)
Thrown == [ok |-> FALSE, v |-> Undefined]

JsonParse(text) ==
  IF text.k = "json" THEN [ok |-> TRUE, v |-> text.v] ELSE Thrown

(***************************************************************************)
(* buildParams and its helpers.  A result is either the value returned or  *)
(* the error thrown (err names the message, name the parameter in it).     *)
(***************************************************************************)
Returned(value) == [ok |-> TRUE, err |-> "", name |-> "", v |-> value]

Failed(err, name) == [ok |-> FALSE, err |-> err, name |-> name, v |-> Undefined]

\* the value a present flag contributes to a schema leaf
FlagValue(key, type, flag) ==
  IF type \in {"number", "integer"} /\ flag.k = "str"
    THEN IF ParseInt(flag.v).nan
           THEN Failed("Invalid number for option", key)
           ELSE Returned(Num(ParseInt(flag.v).n))
    ELSE IF type = "boolean" THEN Returned(Bool(TRUE))
    ELSE Returned(flag)

RECURSIVE BuildSchemaParams(_, _, _)
BuildSchemaParams(opts, entries, result) ==
  IF entries = <<>> THEN Returned(result)
  ELSE LET e == Head(entries)
           key == e.key
       IN IF e.prop.hasProperties
            THEN LET started == IF ~Truthy(Get(result, key))
                                  THEN Set(result, key, EmptyObj)
                                  ELSE result
                     nested == BuildSchemaParams(opts, e.prop.properties,
                                                 Get(started, key))
                 IN IF ~nested.ok THEN nested
                    ELSE BuildSchemaParams(opts, Tail(entries),
                                           Set(started, key, nested.v))
            ELSE IF e.prop.type \in FlagTypes /\ Get(opts.flags, key) # Undefined
              THEN LET val == FlagValue(key, e.prop.type, Get(opts.flags, key))
                   IN IF ~val.ok THEN val
                      ELSE BuildSchemaParams(opts, Tail(entries),
                                             Set(result, key, val.v))
              ELSE BuildSchemaParams(opts, Tail(entries), result)

\* a conversion that leaves the text of the argument as it is
ConvertPositionalUnparsed(param, value) == Returned(value)

\* the conversion of one positional argument to its declared type
ConvertPositional(param, value) ==
  IF param.type \in {"number", "integer"}
    THEN IF ParseInt(value.v).nan
           THEN Failed("Invalid value for parameter", param.name)
           ELSE Returned(Num(ParseInt(value.v).n))
    ELSE Returned(value)

\* current[path[1]]...[path[n]] = value, creating the objects on the way;
\* a truthy primitive on the way makes the assignment throw (strict mode)
RECURSIVE SetAtPath(_, _, _)
SetAtPath(current, path, value) ==
  IF Len(path) = 1 THEN Returned(Set(current, path[1], value))
  ELSE LET child == IF ~Truthy(Get(current, Head(path)))
                      THEN EmptyObj
                      ELSE Get(current, Head(path))
       IN IF ~IsObj(child) THEN Failed("TypeError", Head(path))
          ELSE LET inner == SetAtPath(child, Tail(path), value)
               IN IF ~inner.ok THEN inner
                  ELSE Returned(Set(current, Head(path), inner.v))

Min(a, b) == IF a < b THEN a ELSE b

RECURSIVE MergePositionalFrom(_, _, _, _)
MergePositionalFrom(params, positionalParams, args, i) ==
  IF i > Min(Len(args), Len(positionalParams)) THEN Returned(params)
  ELSE LET converted == ConvertPositional(positionalParams[i], args[i])
       IN IF ~converted.ok THEN converted
          ELSE LET written == SetAtPath(params, positionalParams[i].path,
                                        converted.v)
               IN IF ~written.ok THEN written
                  ELSE MergePositionalFrom(written.v, positionalParams,
                                           args, i + 1)

MergePositionalParameters(params, methodSchema, args) ==
  MergePositionalFrom(params, GetPositionalParameters(methodSchema), args, 1)

HasProperty(node, key) ==
  \E i \in 1..Len(node.properties) : node.properties[i].key = key

RECURSIVE DefaultNested(_, _, _)
DefaultNested(fieldSchema, names, acc) ==
  IF names = <<>> THEN acc
  ELSE DefaultNested(fieldSchema, Tail(names),
         IF /\ HasProperty(fieldSchema, Head(names))
            /\ PropertyNamed(fieldSchema, Head(names)).type = "object"
           THEN Set(acc, Head(names), EmptyObj)
           ELSE acc)

RECURSIVE DefaultFields(_, _, _)
DefaultFields(paramsSchema, names, acc) ==
  IF names = <<>> THEN acc
  ELSE DefaultFields(paramsSchema, Tail(names),
         IF /\ HasProperty(paramsSchema, Head(names))
            /\ PropertyNamed(paramsSchema, Head(names)).type = "object"
            /\ PropertyNamed(paramsSchema, Head(names)).hasProperties
           THEN LET fieldSchema == PropertyNamed(paramsSchema, Head(names))
                IN Set(acc, Head(names),
                       IF fieldSchema.hasRequired
                         THEN DefaultNested(fieldSchema, fieldSchema.required,
                                            EmptyObj)
                         ELSE EmptyObj)
           ELSE acc)

BuildDefaultParams(methodSchema) ==
  IF ~methodSchema.hasParams \/ ~methodSchema.params.hasProperties
    THEN EmptyObj
    ELSE DefaultFields(methodSchema.params, RequiredOf(methodSchema.params),
                       EmptyObj)

\* step 2: { ...params, ...fileParams }
MergeFileInlineWins(params, fileParams) == Spread(fileParams, params)

MergeFile(params, fileParams) == Spread(params, fileParams)

\* step 3: { ...params, ...schemaParams }
MergeFlags(params, schemaParams) == Spread(params, schemaParams)

\* if (options.params): an option that is absent or the empty text is skipped
OptionGiven(text) == text # Undefined /\ text # Raw("")

BuildStep1(opts) ==
  IF OptionGiven(opts.params)
    THEN IF JsonParse(opts.params).ok
           THEN Returned(JsonParse(opts.params).v)
           ELSE Failed("Invalid JSON in --params option", "")
    ELSE Returned(EmptyObj)

BuildStep2(opts, params) ==
  IF opts.file # Undefined
    THEN IF opts.file.k = "json"
           THEN Returned(MergeFile(params, JsonParse(opts.file).v))
           ELSE Failed("Failed to read or parse parameters from file", "")
    ELSE Returned(params)

BuildStep3(opts, methodSchema, params) ==
  IF methodSchema.hasParams /\ methodSchema.params.hasProperties
    THEN LET schemaParams ==
               BuildSchemaParams(opts, methodSchema.params.properties, EmptyObj)
         IN IF ~schemaParams.ok THEN schemaParams
            ELSE Returned(MergeFlags(params, schemaParams.v))
    ELSE Returned(params)

BuildStep4(methodSchema, args, params) ==
  IF Len(args) > 0
    THEN MergePositionalParameters(params, methodSchema, args)
    ELSE Returned(params)

BuildStep5(methodSchema, params) ==
  IF /\ params.v = <<>>
     /\ methodSchema.hasParams
     /\ methodSchema.params.hasRequired
    THEN BuildDefaultParams(methodSchema)
    ELSE params

BuildParams(opts, methodSchema, args) ==
  LET s1 == BuildStep1(opts)
  IN IF ~s1.ok THEN s1
     ELSE LET s2 == BuildStep2(opts, s1.v)
          IN IF ~s2.ok THEN s2
             ELSE LET s3 == BuildStep3(opts, methodSchema, s2.v)
                  IN IF ~s3.ok THEN s3
                     ELSE LET s4 == BuildStep4(methodSchema, args, s3.v)
                          IN IF ~s4.ok THEN s4
                             ELSE Returned(BuildStep5(methodSchema, s4.v))

(***************************************************************************)
(* The inputs buildParams is run on.                                       *)
(***************************************************************************)
MaxArgs == 2

\* {a: number, b: number}, nothing required
FlatSchema ==
  MethodWithParams(ObjectShape(
    << Prop("a", Leaf("number")), Prop("b", Leaf("number")) >>, <<>>))

\* {a: string (required), b: boolean}
FlatTypedSchema ==
  MethodWithParams(ObjectShape(
    << Prop("a", Leaf("string")), Prop("b", Leaf("boolean")) >>, <<"a">>))

\* {a: number, scenario: {id: number, b: string}}, scenario required
NestedSchema ==
  MethodWithParams(ObjectShape(
    << Prop("a", Leaf("number")),
       Prop("scenario", ObjectShape(
         << Prop("id", Leaf("number")), Prop("b", Leaf("string")) >>, <<>>)) >>,
    <<"scenario">>))

\* {scenario: {id: integer (required), run: {index: number}}}
NestedRequiredSchema ==
  MethodWithParams(ObjectShape(
    << Prop("scenario", ObjectShape(
         << Prop("id", Leaf("integer")),
            Prop("run", ObjectShapeNoRequired(<< Prop("index", Leaf("number")) >>)) >>,
         <<"id", "run">>)) >>,
    <<"scenario">>))

\* {a: number} without a required list
UnrequiredSchema ==
  MethodWithParams(ObjectShapeNoRequired(<< Prop("a", Leaf("number")) >>))

\* {a: string (required), scenario: {id: number}}, scenario optional
OptionalNestedSchema ==
  MethodWithParams(ObjectShape(
    << Prop("a", Leaf("string")),
       Prop("scenario", ObjectShape(<< Prop("id", Leaf("number")) >>, <<>>)) >>,
    <<"a">>))

BuildSchemas ==
  {FlatSchema, FlatTypedSchema, NestedSchema, NestedRequiredSchema,
   OptionalNestedSchema, UnrequiredSchema, ScenarioRunSchema, PropertylessSchema, MethodWithoutParams}

\* the object with the entries of choice whose value is given, in order
RECURSIVE ObjectOf(_)
ObjectOf(choice) ==
  IF choice = <<>> THEN EmptyObj
  ELSE IF Head(choice)[2] = Undefined THEN ObjectOf(Tail(choice))
  ELSE Obj(<<Head(choice)>> \o ObjectOf(Tail(choice)).v)

InlineObjects ==
  { ObjectOf(<< <<"a", va>>, <<"b", vb>>, <<"scenario", vs>> >>) :
      va \in {Undefined, Num(1)}, vb \in {Undefined, Num(2)},
      vs \in {Undefined, Obj(<< <<"id", Num(5)>> >>)} }

FileObjects ==
  { ObjectOf(<< <<"a", va>>, <<"b", vb>>, <<"scenario", vs>> >>) :
      va \in {Undefined, Num(4)}, vb \in {Undefined, Num(3)},
      vs \in {Undefined, Obj(<< <<"b", Str(<<"f">>)>> >>)} }

InlineTexts ==
  {Undefined, Raw(""), Raw("{a: 1")} \cup {JsonText("compact", o) : o \in InlineObjects}

\* the content of the --file path: a missing file and a file that is not
\* JSON both end in the same error
FileTexts ==
  {Undefined, Raw("{b: 3")} \cup {JsonText("compact", o) : o \in FileObjects}

FlagObjects ==
  { ObjectOf(<< <<"a", va>>, <<"b", vb>>, <<"id", vi>> >>) :
      va \in {Undefined, Str(<<"9">>), Str(<<"x">>)},
      vb \in {Undefined, Bool(TRUE), Str(<<"7">>)},
      vi \in {Undefined, Str(<<"5">>), Str(<<"5", "x">>)} }

ArgTexts == {Str(<<"5">>), Str(<<"5", "x">>), Str(<<"a", "b", "c">>)}

ArgLists == UNION {[1..n -> ArgTexts] : n \in 0..MaxArgs}

InitBuild ==
  /\ schema \in BuildSchemas
  /\ \E inline \in InlineTexts, file \in FileTexts, flags \in FlagObjects :
       options = [params |-> inline, file |-> file, flags |-> flags]
  /\ positionalArgs \in ArgLists
  /\ pstep = "input"
  /\ positional = <<>>
  /\ built = NotBuilt
  /\ RegIdle
  /\ CodecIdle
  /\ CmdIdle

\* the action of a method command builds the parameters of its call
DoBuildParams ==
  /\ pstep = "input"
  /\ built' = BuildParams(options, schema, positionalArgs)
  /\ pstep' = "built"
  /\ UNCHANGED <<schema, options, positionalArgs, positional, regVars>>
  /\ UNCHANGED <<codecVars, cmdVars>>

NextBuild == DoBuildParams

SpecBuild == InitBuild /\ [][NextBuild]_vars

\* the paths the supplied positional arguments are written to
PositionalTargets ==
  LET pos == GetPositionalParameters(schema)
  IN {pos[i].path : i \in 1..Min(Len(positionalArgs), Len(pos))}

TopLevelLeaves ==
  IF schema.hasParams /\ schema.params.hasProperties
    THEN { schema.params.properties[i] : i \in
             { j \in 1..Len(schema.params.properties) :
                 /\ ~schema.params.properties[j].prop.hasProperties
                 /\ schema.params.properties[j].prop.type \in FlagTypes } }
    ELSE {}

\* what a flag given for a leaf of this type stands for
GivenFlagValue(type, flag) ==
  IF type \in {"number", "integer"} /\ flag.k = "str"
    THEN Num(ParseInt(flag.v).n)
    ELSE IF type = "boolean" THEN Bool(TRUE) ELSE flag

FromJson(text, key) ==
  IF text # Undefined /\ text.k = "json" THEN Get(text.v, key) ELSE Undefined

ExampleOptions ==
  [params |-> JsonText("compact", Obj(<< <<"a", Num(1)>>, <<"b", Num(2)>> >>)),
   file |-> JsonText("compact", Obj(<< <<"b", Num(3)>> >>)),
   flags |-> Obj(<< <<"a", Str(<<"9">>)>> >>)]

\* C10: precedence inline JSON < file JSON < flags.  For every top-level
\* leaf that no positional argument writes, the result holds the flag value
\* if a flag was given, otherwise the file value if the file has the key,
\* otherwise the inline value; and inline {a:1,b:2}, file {b:3}, flag a=9
\* give {a:9,b:3}.
C10_Precedence ==
  (pstep = "built" /\ built.ok) =>
    /\ \A e \in TopLevelLeaves :
         <<e.key>> \notin PositionalTargets =>
           Get(built.v, e.key) =
             IF Get(options.flags, e.key) # Undefined
               THEN GivenFlagValue(e.prop.type, Get(options.flags, e.key))
               ELSE IF FromJson(options.file, e.key) # Undefined
                 THEN FromJson(options.file, e.key)
                 ELSE FromJson(options.params, e.key)
    /\ (schema = FlatSchema /\ options = ExampleOptions /\ positionalArgs = <<>>)
         => DeepEqual(built.v, Obj(<< <<"a", Num(9)>>, <<"b", Num(3)>> >>))

\* the example of the specification was built
C10_Witness ==
  /\ pstep = "built"
  /\ built.ok
  /\ schema = FlatSchema
  /\ options = ExampleOptions
  /\ positionalArgs = <<>>

\* the object a JSON source supplies, empty when the source is not given
JsonOf(text) ==
  IF text # Undefined /\ text.k = "json" THEN text.v ELSE EmptyObj

\* what inline JSON and file JSON supply together
JsonBase == Spread(JsonOf(options.params), JsonOf(options.file))

\* the top-level properties of the schema that are nested objects
NestedObjects ==
  IF schema.hasParams /\ schema.params.hasProperties
    THEN { schema.params.properties[i] : i \in
             { j \in 1..Len(schema.params.properties) :
                 schema.params.properties[j].prop.hasProperties } }
    ELSE {}

\* the leaf named leaf of the nested object has a flag and the flag is given
NestedFlagGiven(nested, leaf) ==
  /\ HasProperty(nested.prop, leaf)
  /\ ~PropertyNamed(nested.prop, leaf).hasProperties
  /\ PropertyNamed(nested.prop, leaf).type \in FlagTypes
  /\ Get(options.flags, leaf) # Undefined

\* C11: a flag for a nested leaf overrides inline and file JSON at that leaf
\* only.  Inside every nested object of the schema the flagged leaves hold
\* their flag values and every other key that inline or file JSON supplied
\* there keeps its value (leaves written by a positional argument aside).
C11_NestedFlagLeafOnly ==
  (pstep = "built" /\ built.ok) =>
    \A nested \in NestedObjects :
      LET given == Get(JsonBase, nested.key)
          result == Get(built.v, nested.key)
      IN (IsObj(given) /\ \E flagged \in Keys(options.flags) :
                             NestedFlagGiven(nested, flagged)) =>
           /\ IsObj(result)
           /\ \A leaf \in Keys(given) :
                <<nested.key, leaf>> \notin PositionalTargets =>
                  Get(result, leaf) =
                    IF NestedFlagGiven(nested, leaf)
                      THEN GivenFlagValue(PropertyNamed(nested.prop, leaf).type,
                                          Get(options.flags, leaf))
                      ELSE Get(given, leaf)

\* the value found in value by following path, undefined when there is none
RECURSIVE ValueAt(_, _)
ValueAt(value, path) ==
  IF path = <<>> THEN value
  ELSE IF IsObj(value) THEN ValueAt(Get(value, Head(path)), Tail(path))
  ELSE Undefined

\* the paths of all the values inside value
RECURSIVE ValuePaths(_, _)
ValuePaths(value, path) ==
  IF ~IsObj(value) THEN {}
  ELSE UNION { {Append(path, key)}
                 \cup ValuePaths(Get(value, key), Append(path, key)) :
               key \in Keys(value) }

IsPrefix(p, q) == Len(p) <= Len(q) /\ SubSeq(q, 1, Len(p)) = p

\* the parameters as inline JSON, file JSON and flags leave them
BeforePositional ==
  BuildStep3(options, schema,
             BuildStep2(options, BuildStep1(options).v).v).v

\* what a positional text stands for in the declared type
PositionalValue(type, text) ==
  IF type \in {"number", "integer"} THEN Num(ParseInt(text.v).n) ELSE text

\* C12: the i-th positional argument is converted to the declared type of
\* the i-th entry of getPositionalParameters and written at that entry's
\* path, intermediate objects being created; it overrides what inline JSON,
\* file JSON or flags put at that leaf and changes no other leaf; the
\* arguments "abc", "5" give name = "abc" and scenario.run.index = 5.
C12_PositionalWrittenAtPath ==
  LET pos == GetPositionalParameters(schema)
      n == Min(Len(positionalArgs), Len(pos))
  IN (pstep = "built" /\ built.ok /\ n >= 1) =>
       /\ \A i \in 1..n :
            ValueAt(built.v, pos[i].path)
              = PositionalValue(pos[i].type, positionalArgs[i])
       /\ \A p \in ValuePaths(BeforePositional, <<>>)
                     \cup ValuePaths(built.v, <<>>) :
            (\A i \in 1..n : ~IsPrefix(p, pos[i].path)
                             /\ ~IsPrefix(pos[i].path, p))
              => ValueAt(built.v, p) = ValueAt(BeforePositional, p)
       /\ (schema = ScenarioRunSchema
           /\ positionalArgs = <<Str(<<"a", "b", "c">>), Str(<<"5">>)>>)
            => /\ ValueAt(built.v, <<"name">>) = Str(<<"a", "b", "c">>)
               /\ ValueAt(built.v, <<"scenario", "run", "index">>) = Num(5)

\* an argument was written over the value a flag gave to the same leaf, next
\* to a value from inline JSON that stays
C12_Witness ==
  /\ pstep = "built"
  /\ built.ok
  /\ schema = FlatTypedSchema
  /\ positionalArgs = <<Str(<<"a", "b", "c">>)>>
  /\ Get(options.flags, "a") = Str(<<"9">>)
  /\ ValueAt(built.v, <<"a">>) = Str(<<"a", "b", "c">>)
  /\ ValueAt(built.v, <<"b">>) = Num(2)

\* a text that is a decimal integer and nothing else
IsNumericText(chars) ==
  LET digits == IF chars # <<>> /\ Head(chars) = "-" THEN Tail(chars) ELSE chars
  IN digits # <<>> /\ \A i \in 1..Len(digits) : IsDigit(digits[i])

\* the names of the number and integer leaves that have a flag of their own
NumericFlagNames ==
  LET names == {pos.name : pos \in SeqRange(GetPositionalParameters(schema))}
  IN { LastOf(p) : p \in
         { q \in SchemaPaths(schema) :
             /\ ~NodeAt(schema.params, q).hasProperties
             /\ NodeAt(schema.params, q).type \in {"number", "integer"}
             /\ LastOf(q) \notin names } }

\* a flag of a number or integer leaf was given a text that is not a number
BadNumericFlag(key) ==
  /\ key \in NumericFlagNames
  /\ Get(options.flags, key) # Undefined
  /\ Get(options.flags, key).k = "str"
  /\ ~IsNumericText(Get(options.flags, key).v)

\* the i-th positional argument is mapped to a number or integer parameter
\* and is not a number
BadNumericArgument(i) ==
  LET pos == GetPositionalParameters(schema)
  IN /\ i <= Min(Len(positionalArgs), Len(pos))
     /\ pos[i].type \in {"number", "integer"}
     /\ ~IsNumericText(positionalArgs[i].v)

\* C13: buildParams fails with an error whenever the --params text is not
\* valid JSON, the --file content cannot be read or parsed, or a text that
\* is not a number is supplied for a flag or a positional parameter of type
\* number or integer; the numeric error names the offending flag or
\* parameter.
C13_FailsOnMalformedInput ==
  pstep = "built" =>
    /\ (options.params # Undefined /\ options.params.k # "json") => ~built.ok
    /\ (options.file # Undefined /\ options.file.k # "json") => ~built.ok
    /\ (\E key \in Keys(options.flags) : BadNumericFlag(key)) => ~built.ok
    /\ (\E i \in 1..MaxArgs : BadNumericArgument(i)) => ~built.ok
    /\ (~built.ok /\ built.err = "Invalid number for option")
         => BadNumericFlag(built.name)
    /\ (~built.ok /\ built.err = "Invalid value for parameter")
         => \E i \in 1..MaxArgs :
              /\ BadNumericArgument(i)
              /\ GetPositionalParameters(schema)[i].name = built.name

\* the object with an empty object under every name of names that is an
\* object-typed property of node, filled one level down by inside
RECURSIVE EmptyObjects(_, _, _)
EmptyObjects(node, names, depth) ==
  IF names = <<>> THEN EmptyObj
  ELSE LET rest == EmptyObjects(node, Tail(names), depth)
           key == Head(names)
       IN IF /\ node.hasProperties
             /\ HasProperty(node, key)
             /\ PropertyNamed(node, key).type = "object"
            THEN LET field == PropertyNamed(node, key)
                     inner == IF depth > 0 /\ field.hasRequired
                                THEN EmptyObjects(field, field.required, depth - 1)
                                ELSE EmptyObj
                 IN Obj(<< <<key, inner>> >> \o rest.v)
            ELSE rest

\* an empty object for every required object-typed top-level field and,
\* inside each, for every required object-typed field one level down
RequiredSkeleton == EmptyObjects(schema.params, schema.params.required, 1)

NothingSupplied ==
  /\ options.params = Undefined
  /\ options.file = Undefined
  /\ options.flags = EmptyObj
  /\ positionalArgs = <<>>

\* C14: when no inline JSON, file JSON, flag or positional argument
\* contributes a value and the schema marks top-level fields as required,
\* buildParams returns the skeleton with an empty object for every required
\* object-typed top-level field and, inside each, an empty object for every
\* required object-typed field one level down, and nothing else.
C14_RequiredSkeleton ==
  (/\ pstep = "built"
   /\ NothingSupplied
   /\ schema.hasParams
   /\ schema.params.hasRequired
   /\ schema.params.required # <<>>)
    => built.ok /\ DeepEqual(built.v, RequiredSkeleton)

\* neither a per-parameter flag nor a positional argument is given, and the
\* JSON sources that are given parse and supply at least one key
OnlyJsonSupplied ==
  /\ options.flags = EmptyObj
  /\ positionalArgs = <<>>
  /\ (options.params = Undefined \/ options.params = Raw("")
        \/ options.params.k = "json")
  /\ (options.file = Undefined \/ options.file.k = "json")
  /\ JsonBase # EmptyObj

\* C25: when no per-parameter flag and no positional argument is supplied,
\* buildParams returns exactly what inline JSON and file JSON supplied: a
\* value given there for a leaf inside a schema-declared nested object is
\* still present, unchanged, and no key absent from both sources is added.
C25_JsonKeptWithoutFlags ==
  (pstep = "built" /\ OnlyJsonSupplied)
    => /\ built.ok
       /\ DeepEqual(built.v, JsonBase)
       /\ Keys(built.v) = Keys(JsonBase)
       /\ \A key \in Keys(JsonBase) : Get(built.v, key) = Get(JsonBase, key)

(***************************************************************************)
(* The scenario codec (utils/scenario-code.ts).  Strings of a scenario are *)
(* Str(text) with text raw or JSON; the scenario directory maps each file  *)
(* name to the text written there.                                         *)
(***************************************************************************)
MaxTargets == 2
MaxBlockId == 2

BlockFileNames == <<"block-1.js", "block-2.js", "block-3.js", "block-4.js">>

BlockPlaceholderNames ==
  <<"__BLOCK_1__", "__BLOCK_2__", "__BLOCK_3__", "__BLOCK_4__">>

\* `block-${blockId}.js`
BlockFile(blockId) == BlockFileNames[blockId.v]

\* `__BLOCK_${blockId}__`
BlockPlaceholder(blockId) == Str(Raw(BlockPlaceholderNames[blockId.v]))

DataPlaceholder == Str(Raw("__DATA__"))

CodePlaceholder == Str(Raw("__CODE__"))

FileNames ==
  {"backup.json", "metadata.json", "data.json", "code.js"}
    \cup {BlockFileNames[i] : i \in 1..Len(BlockFileNames)}

NoFile == [k |-> "absent"]

EmptyDir == [f \in FileNames |-> NoFile]

\* fs.writeFile(path, text)
WriteFile(d, name, text) == [d EXCEPT ![name] = text]

\* fs.readFile(path, 'utf8'): throws when the file is missing
ReadFile(d, name) ==
  IF d[name] = NoFile THEN Thrown ELSE [ok |-> TRUE, v |-> d[name]]

\* JSON.stringify(value, null, 2) when indent, else JSON.stringify(value);
\* the two texts differ only when the value has members to lay out
Stringify(value, indent) ==
  JsonText(IF indent /\ value.k \in {"obj", "arr"} /\ value.v # <<>>
             THEN "pretty" ELSE "compact",
           value)

\* the text of a string value
TextOf(x) == IF x.k = "str" THEN x.v ELSE Raw("undefined")

IsType(x, type) == Get(x, "type") = Str(Raw(type))

\* !(!blockData.targets || !Array.isArray(blockData.targets))
HasTargetsArray(blockData) ==
  IsObj(blockData) /\ Get(blockData, "targets").k = "arr"

Extracted(d) == [ok |-> TRUE, err |-> "", dir |-> d]

ExtractFailed(err, d) == [ok |-> FALSE, err |-> err, dir |-> d]

IsCodeBlockAnyType(target) == Truthy(Get(target, "code"))

\* target.type === 'code' && target.code
IsCodeBlock(target) ==
  IsType(target, "code") /\ Truthy(Get(target, "code"))

\* the block files, written in the order of the targets
RECURSIVE WriteCodeFiles(_, _)
WriteCodeFiles(targets, d) ==
  IF targets = <<>> THEN d
  ELSE IF IsCodeBlock(Head(targets))
    THEN WriteCodeFiles(Tail(targets),
           WriteFile(d, BlockFile(Get(Head(targets), "blockId")),
                     TextOf(Get(Head(targets), "code"))))
    ELSE WriteCodeFiles(Tail(targets), d)

ExtractBlockScenario(s, d) ==
  LET parsed == JsonParse(TextOf(Get(s, "data")))
  IN IF ~parsed.ok THEN ExtractFailed("Invalid JSON in scenario data", d)
     ELSE IF ~HasTargetsArray(parsed.v)
       THEN ExtractFailed("Block scenario data must have targets array", d)
     ELSE LET targets == Get(parsed.v, "targets").v
              metadataTargets ==
                [i \in 1..Len(targets) |->
                   IF IsCodeBlock(targets[i])
                     THEN Set(targets[i], "code",
                              BlockPlaceholder(Get(targets[i], "blockId")))
                     ELSE targets[i]]
              updatedBlockData == Set(parsed.v, "targets", Arr(metadataTargets))
              d1 == WriteFile(d, "data.json", Stringify(updatedBlockData, TRUE))
          IN Extracted(WriteCodeFiles(targets, d1))

ExtractLogicWithoutCode(s, d) == Extracted(d)

ExtractLogicOrGlobalScenario(s, d) ==
  Extracted(WriteFile(d, "code.js", TextOf(Get(s, "data"))))

\* a backup that holds the scenario without its data
WriteBackupWithoutData(s, d) ==
  WriteFile(d, "backup.json", Stringify(Set(s, "data", DataPlaceholder), TRUE))

\* fs.writeFile(backupJsonPath, JSON.stringify(scenarioData, null, 2))
WriteBackup(s, d) == WriteFile(d, "backup.json", Stringify(s, TRUE))

ExtractScenarioCode(s, d) ==
  LET d1 == WriteBackup(s, d)
  IN IF IsType(s, "BLOCK")
       THEN LET d2 == WriteFile(d1, "data.json", TextOf(Get(s, "data")))
                metadata == Set(s, "data", DataPlaceholder)
                d3 == WriteFile(d2, "metadata.json", Stringify(metadata, TRUE))
            IN ExtractBlockScenario(s, d3)
     ELSE IF IsType(s, "LOGIC") \/ IsType(s, "GLOBAL")
       THEN LET metadata == Set(s, "data", CodePlaceholder)
                d2 == WriteFile(d1, "metadata.json", Stringify(metadata, TRUE))
            IN ExtractLogicOrGlobalScenario(s, d2)
     ELSE ExtractFailed("Unsupported scenario type", d1)

\* target.type === 'code' && target.code === `__BLOCK_${target.blockId}__`
IsPlaceholder(target) ==
  /\ IsType(target, "code")
  /\ Get(target, "blockId").k = "num"
  /\ Get(target, "blockId").v \in 1..Len(BlockPlaceholderNames)
  /\ Get(target, "code") = BlockPlaceholder(Get(target, "blockId"))

\* a loop that leaves the placeholder in place when its file cannot be read
RECURSIVE InjectTargetsSkipMissing(_, _, _)
InjectTargetsSkipMissing(targets, d, finalTargets) ==
  IF targets = <<>> THEN Returned(Arr(finalTargets))
  ELSE IF /\ IsPlaceholder(Head(targets))
          /\ ReadFile(d, BlockFile(Get(Head(targets), "blockId"))).ok
    THEN InjectTargetsSkipMissing(Tail(targets), d,
           Append(finalTargets,
                  Set(Head(targets), "code",
                      Str(ReadFile(d, BlockFile(Get(Head(targets), "blockId"))).v))))
    ELSE InjectTargetsSkipMissing(Tail(targets), d,
                                  Append(finalTargets, Head(targets)))

\* the loop over blockData.targets: finalTargets, or the first read that fails
RECURSIVE InjectTargets(_, _, _)
InjectTargets(targets, d, finalTargets) ==
  IF targets = <<>> THEN Returned(Arr(finalTargets))
  ELSE IF IsPlaceholder(Head(targets))
    THEN LET codeContent == ReadFile(d, BlockFile(Get(Head(targets), "blockId")))
         IN IF ~codeContent.ok
              THEN Failed("Failed to read code file",
                          BlockFile(Get(Head(targets), "blockId")))
              ELSE InjectTargets(Tail(targets), d,
                     Append(finalTargets,
                            Set(Head(targets), "code", Str(codeContent.v))))
    ELSE InjectTargets(Tail(targets), d, Append(finalTargets, Head(targets)))

InjectBlockScenario(metadata, d) ==
  LET parsed == JsonParse(TextOf(Get(metadata, "data")))
  IN IF ~parsed.ok THEN Failed("Invalid JSON in scenario data", "")
     ELSE IF ~HasTargetsArray(parsed.v)
       THEN Failed("Block scenario data must have targets array", "")
     ELSE LET finalTargets == InjectTargets(Get(parsed.v, "targets").v, d, <<>>)
          IN IF ~finalTargets.ok THEN finalTargets
             ELSE Returned(Set(metadata, "data",
                    Str(Stringify(Set(parsed.v, "targets", finalTargets.v), FALSE))))

InjectLogicOrGlobalScenario(metadata, d) == Returned(metadata)

\* the type dispatch at the end of injectScenarioCode
InjectByType(metadata, d) ==
  IF IsType(metadata, "BLOCK") THEN InjectBlockScenario(metadata, d)
  ELSE IF IsType(metadata, "LOGIC") \/ IsType(metadata, "GLOBAL")
    THEN InjectLogicOrGlobalScenario(metadata, d)
  ELSE Failed("Unsupported scenario type", "")

\* metadata.data replaced by the content of a file, or the read failing
InjectFile(metadata, d, name) ==
  LET content == ReadFile(d, name)
  IN IF ~content.ok THEN Failed("Failed to read", name)
     ELSE InjectByType(Set(metadata, "data", Str(content.v)), d)

InjectScenarioCode(d) ==
  LET metadataContent == ReadFile(d, "metadata.json")
      parsed == IF metadataContent.ok THEN JsonParse(metadataContent.v) ELSE Thrown
  IN IF ~parsed.ok THEN Failed("Failed to read metadata.json", "")
     ELSE IF parsed.v = Null THEN Failed("TypeError", "")
     ELSE IF Get(parsed.v, "data") = DataPlaceholder
       THEN InjectFile(parsed.v, d, "data.json")
     ELSE IF /\ Get(parsed.v, "data") = CodePlaceholder
             /\ (IsType(parsed.v, "LOGIC") \/ IsType(parsed.v, "GLOBAL"))
       THEN InjectFile(parsed.v, d, "code.js")
     ELSE InjectByType(parsed.v, d)

(***************************************************************************)
(* The scenarios the codec is run on, as scenario.get returns them.        *)
(***************************************************************************)
ScenarioTypes == {"BLOCK", "LOGIC", "GLOBAL", "TIMER"}

CodeTexts == {Raw(""), Raw("log(1)"), Raw("__CODE__"), Raw("__DATA__")}

TargetTypes == {"code", "action"}

TargetCodes ==
  {Undefined, Str(Raw("")), Str(Raw("log(1)"))}
    \cup {BlockPlaceholder(Num(i)) : i \in 1..MaxBlockId}

Target(type, blockId, code) ==
  ObjectOf(<< <<"type", Str(Raw(type))>>, <<"blockId", Num(blockId)>>,
              <<"code", code>> >>)

BlockData(targets) ==
  Obj(<< <<"blockId", Num(0)>>, <<"targets", Arr(targets)>> >>)

\* data of a BLOCK scenario that extractBlockScenario rejects
BrokenBlockTexts ==
  {Raw("log(1)"),
   JsonText("hub", Obj(<< <<"blockId", Num(0)>> >>)),
   JsonText("hub", Obj(<< <<"targets", Str(Raw("none"))>> >>))}

ScenarioOf(type, active, text) ==
  ObjectOf(<< <<"index", Str(Raw("1"))>>, <<"name", Str(Raw("Night light"))>>,
              <<"type", Str(Raw(type))>>, <<"active", active>>,
              <<"data", Str(text)>> >>)

InitCodec ==
  /\ \E type \in ScenarioTypes, active \in {Undefined, Bool(TRUE)} :
       \/ /\ type # "BLOCK"
          /\ \E text \in CodeTexts : scenarioData = ScenarioOf(type, active, text)
       \/ /\ type = "BLOCK"
          /\ \E text \in BrokenBlockTexts : scenarioData = ScenarioOf(type, active, text)
       \/ /\ type = "BLOCK"
          /\ \E n \in 0..MaxTargets, fmt \in {"hub", "compact"} :
               \E ts \in [1..n -> TargetTypes \X (1..MaxBlockId) \X TargetCodes] :
                 scenarioData =
                   ScenarioOf(type, active,
                     JsonText(fmt, BlockData(
                       [i \in 1..n |-> Target(ts[i][1], ts[i][2], ts[i][3])])))
  /\ dir = EmptyDir
  /\ cstep = "input"
  /\ extracted = [ok |-> FALSE]
  /\ injected = [ok |-> FALSE]
  /\ DirIdle
  /\ ParamIdle
  /\ CmdIdle

\* pull saves a fetched scenario: extractScenarioCode(scenarioData, dir)
DoExtract ==
  /\ cstep = "input"
  /\ LET r == ExtractScenarioCode(scenarioData, dir)
     IN /\ dir' = r.dir
        /\ extracted' = [ok |-> r.ok, err |-> r.err]
  /\ cstep' = "extracted"
  /\ UNCHANGED <<scenarioData, injected, dirVars, paramVars, cmdVars>>

\* between pull and push a block file is deleted from the directory
RemoveBlockFile ==
  /\ cstep = "extracted"
  /\ \E name \in SeqRange(BlockFileNames) :
       /\ dir[name] # NoFile
       /\ dir' = [dir EXCEPT ![name] = NoFile]
  /\ cstep' = "edited"
  /\ UNCHANGED <<scenarioData, extracted, injected, dirVars, paramVars, cmdVars>>

\* push reads the directory back: injectScenarioCode(dir)
DoInject ==
  /\ cstep \in {"extracted", "edited"}
  /\ injected' = InjectScenarioCode(dir)
  /\ cstep' = IF cstep = "extracted" THEN "injected" ELSE "injectedEdited"
  /\ UNCHANGED <<scenarioData, dir, extracted, dirVars, paramVars, cmdVars>>

NextCodec == DoExtract \/ RemoveBlockFile \/ DoInject

SpecCodec == InitCodec /\ [][NextCodec]_vars

\* C5: for a LOGIC or GLOBAL scenario, injectScenarioCode after
\* extractScenarioCode into an empty directory returns an object deep-equal
\* to the scenario (every field, data included).
C5_TextRoundTrip ==
  (cstep = "injected" /\ (IsType(scenarioData, "LOGIC") \/ IsType(scenarioData, "GLOBAL")))
    => /\ extracted.ok
       /\ injected.ok
       /\ DeepEqual(injected.v, scenarioData)

\* a LOGIC scenario whose code went through code.js and came back
C5_Witness ==
  /\ cstep = "injected"
  /\ IsType(scenarioData, "LOGIC")
  /\ Get(scenarioData, "data") = Str(Raw("log(1)"))
  /\ dir["code.js"] = Raw("log(1)")
  /\ injected.ok

\* the targets a BLOCK scenario's data parses to, when it has them
HasTargets(s) ==
  /\ IsType(s, "BLOCK")
  /\ JsonParse(TextOf(Get(s, "data"))).ok
  /\ HasTargetsArray(JsonParse(TextOf(Get(s, "data"))).v)

TargetsOf(s) == Get(JsonParse(TextOf(Get(s, "data"))).v, "targets")

UniqueBlockIds(targets) ==
  \A i, j \in 1..Len(targets.v) :
    Get(targets.v[i], "blockId") = Get(targets.v[j], "blockId") => i = j

\* C6: for a BLOCK scenario whose data parses to an object with a targets
\* array of unique blockIds, injectScenarioCode after extractScenarioCode
\* returns a scenario whose data is valid JSON and parses to targets
\* deep-equal to the original targets.
C6_BlockRoundTrip ==
  (cstep = "injected" /\ HasTargets(scenarioData)
     /\ UniqueBlockIds(TargetsOf(scenarioData)))
    => /\ extracted.ok
       /\ injected.ok
       /\ HasTargets(injected.v)
       /\ DeepEqual(TargetsOf(injected.v), TargetsOf(scenarioData))

\* a BLOCK scenario with a code block that went through its block file and
\* a target that stayed in data.json
C6_Witness ==
  /\ cstep = "injected"
  /\ HasTargets(scenarioData)
  /\ UniqueBlockIds(TargetsOf(scenarioData))
  /\ \E i, j \in 1..Len(TargetsOf(scenarioData).v) :
       /\ IsCodeBlock(TargetsOf(scenarioData).v[i])
       /\ dir[BlockFile(Get(TargetsOf(scenarioData).v[i], "blockId"))] # NoFile
       /\ ~IsCodeBlock(TargetsOf(scenarioData).v[j])
  /\ injected.ok

\* the directory holds a BLOCK scenario in the data.json layout
IsBlockDirectory(d) ==
  /\ d["metadata.json"] # NoFile
  /\ d["metadata.json"].k = "json"
  /\ IsType(d["metadata.json"].v, "BLOCK")
  /\ Get(d["metadata.json"].v, "data") = DataPlaceholder
  /\ d["data.json"] # NoFile
  /\ d["data.json"].k = "json"
  /\ HasTargetsArray(d["data.json"].v)

\* the targets of data.json that hold the placeholder of a block file the
\* directory does not have
MissingBlocks(d) ==
  LET targets == Get(d["data.json"].v, "targets").v
  IN { i \in 1..Len(targets) :
         /\ IsPlaceholder(targets[i])
         /\ d[BlockFile(Get(targets[i], "blockId"))] = NoFile }

FirstMissingFile(d) ==
  LET targets == Get(d["data.json"].v, "targets").v
      first == CHOOSE i \in MissingBlocks(d) : \A j \in MissingBlocks(d) : i <= j
  IN BlockFile(Get(targets[first], "blockId"))

\* C20: injectScenarioCode on a BLOCK directory whose data.json references
\* a placeholder __BLOCK_<id>__ for which block-<id>.js is missing fails
\* with an error naming block-<id>.js, returns no scenario, and leaves every
\* file of the directory as it was.
C20_MissingBlockFileFails ==
  [][(/\ cstep' \in {"injected", "injectedEdited"}
      /\ cstep' # cstep
      /\ IsBlockDirectory(dir)
      /\ MissingBlocks(dir) # {})
       => /\ ~injected'.ok
          /\ injected'.err = "Failed to read code file"
          /\ injected'.name = FirstMissingFile(dir)
          /\ injected'.v = Undefined
          /\ dir' = dir]_vars

\* injection failed on a directory from which one of two block files had
\* been deleted
C20_Witness ==
  /\ cstep = "injectedEdited"
  /\ ~injected.ok
  /\ IsBlockDirectory(dir)
  /\ MissingBlocks(dir) # {}
  /\ injected.name = FirstMissingFile(dir)
  /\ \E name \in SeqRange(BlockFileNames) : dir[name] # NoFile

\* the targets of type "code" whose code is a string
IsCodeTarget(target) ==
  IsType(target, "code") /\ Get(target, "code").k = "str"

\* the block files the directory holds
BlockFilesIn(d) == {name \in SeqRange(BlockFileNames) : d[name] # NoFile}

\* C21: extracting a BLOCK scenario (targets array, unique blockIds) moves
\* the code of every target of type "code" into block-<blockId>.js and
\* writes data.json with that code replaced by __BLOCK_<blockId>__, every
\* other target unchanged and in the same order; the number of block files
\* equals the number of code targets; metadata.json has data = __DATA__.
C21_BlockExtraction ==
  (cstep = "extracted" /\ HasTargets(scenarioData)
     /\ UniqueBlockIds(TargetsOf(scenarioData)))
    => LET parsed == JsonParse(TextOf(Get(scenarioData, "data"))).v
           targets == TargetsOf(scenarioData).v
       IN /\ extracted.ok
          /\ dir["metadata.json"] =
               Stringify(Set(scenarioData, "data", DataPlaceholder), TRUE)
          /\ dir["data.json"].k = "json"
          /\ dir["data.json"].v =
               Set(parsed, "targets",
                   Arr([i \in 1..Len(targets) |->
                          IF IsCodeTarget(targets[i])
                            THEN Set(targets[i], "code",
                                     BlockPlaceholder(Get(targets[i], "blockId")))
                            ELSE targets[i]]))
          /\ \A i \in 1..Len(targets) :
               IsCodeTarget(targets[i])
                 => dir[BlockFile(Get(targets[i], "blockId"))]
                      = Get(targets[i], "code").v
          /\ Cardinality(BlockFilesIn(dir))
               = Cardinality({i \in 1..Len(targets) : IsCodeTarget(targets[i])})

\* C23: every call of extractScenarioCode writes backup.json holding the
\* complete, unmodified input ScenarioData (original data string included),
\* for all three types and also when extraction then fails on an
\* unsupported type or on BLOCK data it cannot use.
C23_BackupAlwaysWritten ==
  (cstep = "extracted")
    => /\ dir["backup.json"] = Stringify(scenarioData, TRUE)
       /\ JsonParse(dir["backup.json"]).ok
       /\ JsonParse(dir["backup.json"]).v = scenarioData
       /\ Get(JsonParse(dir["backup.json"]).v, "data") = Get(scenarioData, "data")

\* extraction failed on BLOCK data that is not JSON, and the backup holds
\* the scenario with that data
C23_Witness ==
  /\ cstep = "extracted"
  /\ ~extracted.ok
  /\ extracted.err = "Invalid JSON in scenario data"
  /\ IsType(scenarioData, "BLOCK")
  /\ JsonParse(dir["backup.json"]).v = scenarioData
  /\ Get(JsonParse(dir["backup.json"]).v, "data") = Str(Raw("log(1)"))

\* extraction failed on an unsupported type, and the backup is there
C23_WitnessUnsupported ==
  /\ cstep = "extracted"
  /\ extracted.err = "Unsupported scenario type"
  /\ JsonParse(dir["backup.json"]).v = scenarioData
  /\ dir["metadata.json"] = NoFile

(***************************************************************************)
(* The checks of a scenario directory as push finds it: hasExtractedCode,  *)
(* validateScenarioDirectory, injectScenarioCode.  A missing directory and *)
(* an empty one answer every access and read alike (ENOENT).               *)
(***************************************************************************)
\* fs.access(path) resolves
Access(d, name) == d[name] # NoFile

\* the body of hasExtractedCode without its outer catch
HasExtractedCodeUncaught(d) ==
  IF ~Access(d, "metadata.json") THEN Failed("ENOENT", "metadata.json")
  ELSE IF Access(d, "data.json") THEN Returned(Bool(TRUE))
  ELSE LET parsed == JsonParse(ReadFile(d, "metadata.json").v)
       IN IF ~parsed.ok THEN Failed("SyntaxError", "metadata.json")
          ELSE IF parsed.v = Null THEN Failed("TypeError", "metadata.json")
          ELSE Returned(Bool(\/ Get(parsed.v, "data") = CodePlaceholder
                             \/ Get(parsed.v, "data") = DataPlaceholder))

\* hasExtractedCode: whatever is thrown inside is caught and answered false
HasExtractedCode(d) ==
  LET r == HasExtractedCodeUncaught(d)
  IN IF r.ok THEN r ELSE Returned(Bool(FALSE))

Valid == [ok |-> TRUE, isValid |-> TRUE, err |-> ""]

Invalid(err) == [ok |-> TRUE, isValid |-> FALSE, err |-> err]

\* the loop of validateScenarioDirectory over blockData.targets
RECURSIVE ValidateTargets(_, _)
ValidateTargets(targets, d) ==
  IF targets = <<>> THEN Valid
  ELSE IF /\ IsPlaceholder(Head(targets))
          /\ ~Access(d, BlockFile(Get(Head(targets), "blockId")))
    THEN Invalid("Missing code file")
    ELSE ValidateTargets(Tail(targets), d)

ValidateScenarioDirectory(d) ==
  LET metadataContent == ReadFile(d, "metadata.json")
      parsed == IF metadataContent.ok THEN JsonParse(metadataContent.v) ELSE Thrown
  IN IF ~parsed.ok THEN Invalid("Failed to read or parse metadata.json")
     ELSE IF parsed.v = Null THEN Invalid("Validation failed")
     ELSE LET data == Get(parsed.v, "data")
              dataContent == ReadFile(d, "data.json")
              blockData == IF dataContent.ok THEN JsonParse(dataContent.v) ELSE Thrown
          IN IF data = DataPlaceholder /\ ~blockData.ok
               THEN Invalid("Failed to read or parse data.json")
             ELSE IF /\ data = CodePlaceholder
                     /\ (IsType(parsed.v, "LOGIC") \/ IsType(parsed.v, "GLOBAL"))
                     /\ ~Access(d, "code.js")
               THEN Invalid("Failed to access code.js")
             ELSE IF /\ IsType(parsed.v, "BLOCK")
                     /\ data = DataPlaceholder
                     /\ HasTargetsArray(blockData.v)
               THEN ValidateTargets(Get(blockData.v, "targets").v, d)
             ELSE Valid

\* what metadata.json may hold as data: a placeholder, a script, the block
\* data inline, nothing
MetadataData ==
  {DataPlaceholder, CodePlaceholder, Str(Raw("log(1)")),
   Str(JsonText("compact", BlockData(<<Target("code", 1, Str(Raw("log(1)")))>>))),
   Undefined}

DirMetadata(type, data) ==
  ObjectOf(<< <<"index", Str(Raw("1"))>>, <<"name", Str(Raw("Night light"))>>,
              <<"type", Str(Raw(type))>>, <<"data", data>> >>)

\* metadata.json: missing, not JSON, null, or a scenario object
MetadataTexts ==
  {NoFile, Raw("{"), JsonText("pretty", Null)}
    \cup {JsonText("pretty", DirMetadata(type, data)) :
            type \in ScenarioTypes, data \in MetadataData}

\* data.json: missing, not JSON, block data without targets, block data whose
\* one target holds the placeholder of block-1.js
DataJsonTexts ==
  {NoFile, Raw("{"),
   JsonText("pretty", Obj(<< <<"blockId", Num(0)>> >>)),
   JsonText("pretty", BlockData(<<Target("code", 1, BlockPlaceholder(Num(1)))>>))}

InitDir ==
  /\ \E metadata \in MetadataTexts, data \in DataJsonTexts,
        code \in {NoFile, Raw("log(1)")}, block \in {NoFile, Raw("log(1)")} :
       dir = [EmptyDir EXCEPT !["metadata.json"] = metadata,
                              !["data.json"] = data,
                              !["code.js"] = code,
                              !["block-1.js"] = block]
  /\ scenarioData = Undefined
  /\ cstep = "dir"
  /\ extracted = [ok |-> FALSE]
  /\ injected = [ok |-> FALSE]
  /\ DirIdle
  /\ ParamIdle
  /\ CmdIdle

\* findScenarioFiles asks hasExtractedCode(scenarioDir)
CheckExtracted ==
  /\ cstep = "dir"
  /\ hasCode' = HasExtractedCode(dir)
  /\ cstep' = "checked"
  /\ UNCHANGED <<scenarioData, dir, extracted, injected, validated, paramVars, cmdVars>>

\* validateScenarioDirectory(scenarioDir)
ValidateDirectory ==
  /\ cstep = "checked"
  /\ validated' = ValidateScenarioDirectory(dir)
  /\ cstep' = "validated"
  /\ UNCHANGED <<scenarioData, dir, extracted, injected, hasCode, paramVars, cmdVars>>

\* injectScenarioCode(scenarioDir) on the directory as it was validated
InjectValidated ==
  /\ cstep = "validated"
  /\ injected' = InjectScenarioCode(dir)
  /\ cstep' = "injectedValidated"
  /\ UNCHANGED <<scenarioData, dir, extracted, dirVars, paramVars, cmdVars>>

NextDir == CheckExtracted \/ ValidateDirectory \/ InjectValidated

SpecDir == InitDir /\ [][NextDir]_vars

\* metadata.json parses to an object whose data is __CODE__ or __DATA__
MetadataHoldsPlaceholder(d) ==
  /\ d["metadata.json"].k = "json"
  /\ IsObj(d["metadata.json"].v)
  /\ \E i \in 1..Len(d["metadata.json"].v.v) :
       \/ d["metadata.json"].v.v[i] = <<"data", CodePlaceholder>>
       \/ d["metadata.json"].v.v[i] = <<"data", DataPlaceholder>>

\* C22: hasExtractedCode(dir) never throws, and is true exactly when
\* metadata.json exists and either data.json exists or metadata.json parses
\* to an object whose data is "__CODE__" or "__DATA__" (so false for a
\* missing directory, a missing metadata.json, and a metadata.json with
\* ordinary data and no data.json).
C22_HasExtractedCode ==
  (cstep \in {"checked", "validated", "injectedValidated"})
    => /\ hasCode.ok
       /\ hasCode.v = Bool(/\ dir["metadata.json"] # NoFile
                           /\ \/ dir["data.json"] # NoFile
                              \/ MetadataHoldsPlaceholder(dir))

\* true for a directory that holds only metadata.json with data "__CODE__"
C22_Witness ==
  /\ cstep = "checked"
  /\ hasCode = Returned(Bool(TRUE))
  /\ \A name \in FileNames : dir[name] # NoFile <=> name = "metadata.json"
  /\ Get(dir["metadata.json"].v, "data") = CodePlaceholder

\* false for a directory whose metadata.json has ordinary data and that has
\* no data.json
C22_WitnessFalse ==
  /\ cstep = "checked"
  /\ hasCode = Returned(Bool(FALSE))
  /\ dir["metadata.json"].k = "json"
  /\ dir["data.json"] = NoFile
  /\ IsObj(dir["metadata.json"].v)
  /\ Get(dir["metadata.json"].v, "data") = Str(Raw("log(1)"))

\* C27: whenever validateScenarioDirectory(dir) returns isValid = true,
\* injectScenarioCode(dir) on the same unchanged directory returns a
\* scenario without throwing, for every metadata type and data value.
C27_ValidImpliesInjectable ==
  (cstep = "injectedValidated" /\ validated.isValid) => injected.ok

(***************************************************************************)
(* The client wrapper (utils/client.ts).  A Sprut object is known by its   *)
(* number; live holds those whose connection is established and not yet    *)
(* closed.                                                                 *)
(***************************************************************************)
ConnectOutcomes == {"connected", "noCredentials", "refused"}

RpcOutcomes == {"success", "failed", "throws"}

CallOutcomes == ConnectOutcomes \X RpcOutcomes

Wrapper(ok, c, conn, l, n, o) ==
  [ok |-> ok, client |-> c, isConnected |-> conn, live |-> l,
   created |-> n, opened |-> o]

\* a getClient that connects anew on every call
GetClientAlwaysNew(conn) ==
  IF conn = "noCredentials"
    THEN Wrapper(FALSE, client, isConnected, live, created, opened)
  ELSE IF conn = "refused"
    THEN Wrapper(FALSE, created + 1, isConnected, live, created + 1, opened)
  ELSE Wrapper(TRUE, created + 1, TRUE, live \cup {created + 1},
               created + 1, opened + 1)

\* getClient: the connected client is reused; otherwise the credentials are
\* loaded (which may throw), a new Sprut is assigned to this.client, and
\* isConnected is set once connected() resolves (which may reject)
GetClient(conn) ==
  IF client # 0 /\ isConnected
    THEN Wrapper(TRUE, client, isConnected, live, created, opened)
  ELSE IF conn = "noCredentials"
    THEN Wrapper(FALSE, client, isConnected, live, created, opened)
  ELSE IF conn = "refused"
    THEN Wrapper(FALSE, created + 1, isConnected, live, created + 1, opened)
  ELSE Wrapper(TRUE, created + 1, TRUE, live \cup {created + 1},
               created + 1, opened + 1)

\* callMethod: getClient, then the client's callMethod, whose error is
\* rethrown; a response with isSuccess false is returned, not thrown
CallMethod(call) ==
  LET g == GetClient(call[1])
  IN [ok |-> g.ok /\ call[2] # "throws",
      isSuccess |-> g.ok /\ call[2] = "success",
      wrapper |-> g]

\* the wrapper's fields after a callMethod
ClientAfter(g) ==
  /\ client' = g.client
  /\ isConnected' = g.isConnected
  /\ live' = g.live
  /\ created' = g.created
  /\ opened' = g.opened
  /\ UNCHANGED <<closed, disconnects, closeCalls>>

\* disconnect: a no-op without a client, else close() and the fields reset
Disconnect ==
  /\ disconnects' = disconnects + 1
  /\ IF client # 0
       THEN /\ client' = 0
            /\ isConnected' = FALSE
            /\ live' = live \ {client}
            /\ closed' = IF client \in live THEN closed + 1 ELSE closed
            /\ closeCalls' = closeCalls + 1
       ELSE UNCHANGED <<client, isConnected, live, closed, closeCalls>>
  /\ UNCHANGED <<created, opened>>

\* process.exit(1): the process ends where it stands; no finally block runs
ProcessExit == pc' = "exited"

(***************************************************************************)
(* pushCommand (commands/core/scripts.ts).                                 *)
(***************************************************************************)
MaxFiles == 3

IndexNames == <<"1", "2", "3", "4">>

\* validateScenarioData
ValidateScenarioData(data) ==
  /\ IsObj(data)
  /\ \A field \in {"index", "name", "type"} : Has(data, field)
  /\ \E type \in {"BLOCK", "LOGIC", "GLOBAL"} : IsType(data, type)

\* delete o[key]
Delete(o, key) == Obj(SelectSeq(o.v, LAMBDA e : e[1] # key))

RECURSIVE DeleteAll(_, _)
DeleteAll(o, fields) ==
  IF fields = <<>> THEN o ELSE DeleteAll(Delete(o, Head(fields)), Tail(fields))

\* compareScenarios: the two JSON texts, runtime and local-only fields removed
CompareScenarios(local, remote) ==
  LET fields == <<"lastRun", "runCount", "error", "iconsThen", "iconsIf">>
  IN Stringify(DeleteAll(local, fields), FALSE)
       = Stringify(DeleteAll(remote, fields), FALSE)

\* a comparison that removes the runtime fields only
CompareRuntimeFieldsOnly(local, remote) ==
  LET fields == <<"lastRun", "runCount", "error">>
  IN [same |-> Stringify(DeleteAll(local, fields), FALSE)
                 = Stringify(DeleteAll(remote, fields), FALSE),
      local |-> local,
      remote |-> remote]

\* a call of compareScenarios: its result, and its two arguments as the
\* call leaves them (the fields are deleted from the copies { ...local } and
\* { ...remote }, not from the arguments)
CompareCall(local, remote) ==
  [same |-> CompareScenarios(local, remote),
   local |-> local,
   remote |-> remote]

LocalScenario(index) ==
  Obj(<< <<"index", Str(Raw(index))>>, <<"name", Str(Raw("Night light"))>>,
         <<"type", Str(Raw("LOGIC"))>>, <<"data", Str(Raw("log(1)"))>> >>)

\* the i-th file of the batch is named after index i; what it holds is one
\* of: something injectScenarioCode or JSON.parse rejects, an object that is
\* no scenario, a scenario of another index, the scenario
ContentKinds == {"unreadable", "notScenario", "otherIndex", "scenario"}

ScenarioFiles == [isDirectory : BOOLEAN, holds : ContentKinds]

\* scenarioIndex: the directory's name, or the file's without .json
ScenarioIndex(i) == Str(Raw(IndexNames[i]))

\* injectScenarioCode(filePath), or JSON.parse of the file's content
ReadLocal(file, i) ==
  CASE file.holds = "unreadable" -> Failed("unreadable", "")
    [] file.holds = "notScenario" ->
         Returned(Obj(<< <<"index", ScenarioIndex(i)>> >>))
    [] file.holds = "otherIndex" -> Returned(LocalScenario("9"))
    [] OTHER -> Returned(LocalScenario(IndexNames[i]))

\* what scenario.get may answer for the scenario pushed: the same scenario,
\* the same with a runtime field, an older version
RemoteVersions(local) ==
  {local, Set(local, "lastRun", Num(7)), Set(local, "name", Str(Raw("Old name")))}

NotCompared == [called |-> FALSE]

AfterFailureContinue == "pushNext"

\* every failure in the loop ends with errorCount++ and break
AfterFailure == "pushSummary"

CountError ==
  /\ errorCount' = errorCount + 1
  /\ firstError' = IF firstError = 0 THEN cur ELSE firstError
  /\ pc' = AfterFailure

\* the source is resolved to filesToProcess; a missing or unsupported source
\* throws, a directory without scenarios returns
PushResolve ==
  /\ pc = "pushResolve"
  /\ \/ /\ ProcessExit
        /\ UNCHANGED cur
     \/ /\ files = <<>>
        /\ pc' = "finally"
        /\ UNCHANGED cur
     \/ /\ files # <<>>
        /\ cur' = 1
        /\ pc' = "pushRead"
  /\ UNCHANGED <<files, localData, errorCount, updatedCount, skippedCount, ops,
                 firstError>>
  /\ UNCHANGED <<cmd, caller, clientVars, listed, paramVars, codecVars, callVars>>
  /\ UNCHANGED <<force, compareVars>>

\* the file is read (inject or parse), validated, its index checked
PushRead ==
  /\ pc = "pushRead"
  /\ \/ /\ ProcessExit
        /\ UNCHANGED <<localData, errorCount, ops, firstError>>
     \/ /\ ops' = Append(ops, <<"read", cur>>)
        /\ LET local == ReadLocal(files[cur], cur)
           IN IF /\ local.ok
                 /\ ValidateScenarioData(local.v)
                 /\ Get(local.v, "index") = ScenarioIndex(cur)
                THEN /\ localData' = local.v
                     /\ pc' = "pushFetch"
                     /\ UNCHANGED <<errorCount, firstError>>
                ELSE /\ CountError
                     /\ UNCHANGED localData
  /\ UNCHANGED <<files, cur, updatedCount, skippedCount>>
  /\ UNCHANGED <<cmd, caller, clientVars, listed, paramVars, codecVars, callVars>>
  /\ UNCHANGED <<force, compareVars>>

\* the scenario is updated whatever was answered
GoesOnToUpdateAlways(areEqual, shouldUpdate) == ~areEqual

\* neither if (areEqual) continue nor if (!shouldUpdate) continue was taken
GoesOnToUpdate(areEqual, shouldUpdate) == ~areEqual /\ shouldUpdate

\* the answers askForConfirmation may resolve to; with --force, or when the
\* scenarios are equal, it is not called
Answers(areEqual) ==
  IF areEqual \/ force THEN {"notAsked"} ELSE {"yes", "no"}

\* what the comparison and the confirmation add to the steps made
DecisionOps(areEqual, answer) ==
  << <<IF areEqual THEN "equal" ELSE "differs", cur>> >>
    \o (IF answer = "notAsked" THEN <<>> ELSE << <<answer, cur>> >>)

\* scenario.get, the comparison, and the confirmation unless --force
PushFetch ==
  /\ pc = "pushFetch"
  /\ \E call \in CallOutcomes :
       LET r == CallMethod(call)
       IN /\ ClientAfter(r.wrapper)
          /\ IF ~r.isSuccess
               THEN /\ ops' = Append(ops, <<"fetch", cur>>)
                    /\ CountError
                    /\ UNCHANGED <<skippedCount, localData, compareVars>>
               ELSE \E remote \in RemoteVersions(localData) :
                      LET compare == CompareCall(localData, remote)
                      IN \E answer \in Answers(compare.same) :
                           LET shouldUpdate == force \/ answer = "yes"
                           IN /\ ops' = Append(ops, <<"fetch", cur>>)
                                          \o DecisionOps(compare.same, answer)
                              /\ compared' = [called |-> TRUE, same |-> compare.same,
                                              local |-> localData, remote |-> remote]
                              /\ localData' = compare.local
                              /\ remoteData' = compare.remote
                              /\ UNCHANGED <<errorCount, firstError>>
                              /\ IF GoesOnToUpdate(compare.same, shouldUpdate)
                                   THEN /\ UNCHANGED skippedCount
                                        /\ pc' = "pushUpdate"
                                   ELSE /\ skippedCount' = skippedCount + 1
                                        /\ pc' = "pushNext"
  /\ UNCHANGED <<files, cur, updatedCount, force>>
  /\ UNCHANGED <<cmd, caller, listed, paramVars, codecVars, callVars>>

\* scenario.update
PushUpdate ==
  /\ pc = "pushUpdate"
  /\ \E call \in CallOutcomes :
       LET r == CallMethod(call)
       IN /\ ClientAfter(r.wrapper)
          /\ IF ~r.isSuccess
               THEN /\ ops' = Append(ops, <<"update", cur>>)
                    /\ CountError
               ELSE /\ ops' = ops \o << <<"update", cur>>, <<"updated", cur>> >>
                    /\ pc' = "pushVerify"
                    /\ UNCHANGED <<errorCount, firstError>>
  /\ UNCHANGED <<files, cur, localData, updatedCount, skippedCount>>
  /\ UNCHANGED <<cmd, caller, listed, paramVars, codecVars, callVars>>
  /\ UNCHANGED <<force, compareVars>>

\* the update is counted whatever the verification found
VerificationPassesAlways(isNowEqual) == TRUE

\* if (!isNowEqual) { errorCount++; break } was not taken
VerificationPasses(isNowEqual) == isNowEqual

\* scenario.get again (a response without data is a failure) and the
\* comparison with what was pushed
PushVerify ==
  /\ pc = "pushVerify"
  /\ \E call \in CallOutcomes :
       LET r == CallMethod(call)
       IN /\ ClientAfter(r.wrapper)
          /\ \E remote \in RemoteVersions(localData) \cup {Undefined} :
               IF ~r.isSuccess \/ remote = Undefined
                 THEN /\ ops' = Append(ops, <<"verify", cur>>)
                      /\ CountError
                      /\ UNCHANGED updatedCount
                 ELSE LET isNowEqual == CompareCall(localData, remote).same
                      IN /\ ops' = ops \o << <<"verify", cur>>,
                                              <<IF isNowEqual THEN "nowEqual"
                                                ELSE "stillDiffers", cur>> >>
                         /\ IF VerificationPasses(isNowEqual)
                              THEN /\ updatedCount' = updatedCount + 1
                                   /\ pc' = "pushNext"
                                   /\ UNCHANGED <<errorCount, firstError>>
                              ELSE /\ CountError
                                   /\ UNCHANGED updatedCount
  /\ UNCHANGED <<files, cur, localData, skippedCount>>
  /\ UNCHANGED <<cmd, caller, listed, paramVars, codecVars, callVars>>
  /\ UNCHANGED <<force, compareVars>>

\* the for loop moves to the next file, or ends
PushNext ==
  /\ pc = "pushNext"
  /\ IF cur < Len(files)
       THEN /\ cur' = cur + 1
            /\ pc' = "pushRead"
       ELSE /\ pc' = "pushSummary"
            /\ UNCHANGED cur
  /\ UNCHANGED <<files, localData, errorCount, updatedCount, skippedCount, ops,
                 firstError>>
  /\ UNCHANGED <<cmd, caller, clientVars, listed, paramVars, codecVars, callVars>>
  /\ UNCHANGED <<force, compareVars>>

\* the summary: process.exit(1) when an error was counted
PushSummary ==
  /\ pc = "pushSummary"
  /\ IF errorCount > 0 THEN ProcessExit ELSE pc' = "finally"
  /\ UNCHANGED <<cmd, caller, clientVars, pushVars, listed, paramVars, codecVars, callVars>>

\* the finally block of a handler: await client.disconnect(); pushCommand
\* called by deployCommand returns to it
Finally ==
  /\ pc = "finally"
  /\ Disconnect
  /\ pc' = IF caller = "deploy" THEN "deployRun" ELSE "done"
  /\ caller' = "none"
  /\ UNCHANGED <<cmd, pushVars, listed, paramVars, codecVars, callVars>>

(***************************************************************************)
(* pullCommand (commands/core/scripts.ts).                                 *)
(***************************************************************************)
MaxListed == 2

\* pull of one scenario: scenario.get; a failed response exits, an error
\* thrown is caught and exits
PullFetch ==
  /\ pc = "pullFetch"
  /\ \E call \in CallOutcomes :
       LET r == CallMethod(call)
       IN /\ ClientAfter(r.wrapper)
          /\ IF r.isSuccess THEN pc' = "pullSave" ELSE ProcessExit
  /\ UNCHANGED <<cmd, caller, pushVars, listed, paramVars, codecVars, callVars>>

\* the directories are made (a failure exits), the scenario is compared
\* with the local copy and returned unchanged or declined, or it is saved:
\* extracted, or written as a JSON backup, whose failure is caught and exits
PullSave ==
  /\ pc = "pullSave"
  /\ \E outcome \in {"mkdirFails", "unchanged", "declined", "extracted",
                     "backupSaved", "backupFails"} :
       IF outcome \in {"mkdirFails", "backupFails"}
         THEN ProcessExit
         ELSE pc' = "finally"
  /\ UNCHANGED <<cmd, caller, clientVars, pushVars, listed, paramVars, codecVars, callVars>>

\* pull of all scenarios: scenario.list; a failed response or one without a
\* scenarios array exits, an empty list returns, a failed mkdir exits
PullList ==
  /\ pc = "pullList"
  /\ \E call \in CallOutcomes :
       LET r == CallMethod(call)
       IN /\ ClientAfter(r.wrapper)
          /\ IF ~r.isSuccess
               THEN /\ ProcessExit
                    /\ UNCHANGED <<listed, cur>>
               ELSE \E n \in 0..MaxListed, usable \in BOOLEAN :
                      /\ listed' = n
                      /\ IF ~usable THEN ProcessExit /\ UNCHANGED cur
                         ELSE IF n = 0 THEN pc' = "finally" /\ UNCHANGED cur
                         ELSE pc' = "pullItem" /\ cur' = 1
  /\ UNCHANGED <<files, localData, errorCount, updatedCount, skippedCount, ops,
                 firstError>>
  /\ UNCHANGED <<cmd, caller, paramVars, codecVars, callVars>>
  /\ UNCHANGED <<force, compareVars>>

\* one scenario of the list: without an index it is skipped; else
\* scenario.get, whose failure is caught and skipped, and the save, whose
\* failures are caught and skipped
PullItem ==
  /\ pc = "pullItem"
  /\ \/ UNCHANGED clientVars
     \/ \E call \in CallOutcomes : ClientAfter(CallMethod(call).wrapper)
  /\ IF cur < listed
       THEN /\ cur' = cur + 1
            /\ pc' = "pullItem"
       ELSE /\ pc' = "finally"
            /\ UNCHANGED cur
  /\ UNCHANGED <<files, localData, errorCount, updatedCount, skippedCount, ops,
                 firstError>>
  /\ UNCHANGED <<cmd, caller, listed, paramVars, codecVars, callVars>>
  /\ UNCHANGED <<force, compareVars>>

(***************************************************************************)
(* deployCommand (commands/core/deploy.ts).                                *)
(***************************************************************************)
\* phase 1: pushCommand(scenarioId, options) runs inside deployCommand
DeployPush ==
  /\ pc = "deployPush"
  /\ caller' = "deploy"
  /\ pc' = "pushResolve"
  /\ UNCHANGED <<cmd, clientVars, pushVars, listed, paramVars, codecVars, callVars>>

\* phase 2: scenario.run; an error or a failed response is thrown, caught
\* by deployCommand and exits
DeployRun ==
  /\ pc = "deployRun"
  /\ \E call \in CallOutcomes, noLogs \in BOOLEAN :
       LET r == CallMethod(call)
       IN /\ ClientAfter(r.wrapper)
          /\ IF ~r.isSuccess THEN ProcessExit
             ELSE pc' = IF noLogs THEN "finally" ELSE "deployLogs"
  /\ UNCHANGED <<cmd, caller, pushVars, listed, paramVars, codecVars, callVars>>

\* phase 3: log.list; its failure is caught and reported
DeployLogs ==
  /\ pc = "deployLogs"
  /\ \E call \in CallOutcomes : ClientAfter(CallMethod(call).wrapper)
  /\ pc' = "finally"
  /\ UNCHANGED <<cmd, caller, pushVars, listed, paramVars, codecVars, callVars>>

(***************************************************************************)
(* The action of a method command (commands/dynamic/method-commands.ts).   *)
(***************************************************************************)
\* buildParams; an error thrown is caught, reported, and exits
MethodBuild ==
  /\ pc = "methodBuild"
  /\ built' = BuildParams(options, schema, positionalArgs)
  /\ pstep' = "built"
  /\ IF built'.ok THEN pc' = "methodCall" ELSE ProcessExit
  /\ UNCHANGED <<schema, options, positionalArgs, positional, regVars>>
  /\ UNCHANGED <<cmd, caller, clientVars, pushVars, listed, codecVars, callVars>>

\* client.callMethod; the response is printed whatever its isSuccess, an
\* error thrown is caught, reported, and exits
MethodCall ==
  /\ pc = "methodCall"
  /\ \E call \in CallOutcomes :
       LET r == CallMethod(call)
       IN /\ ClientAfter(r.wrapper)
          /\ IF r.ok THEN pc' = "finally" ELSE ProcessExit
  /\ UNCHANGED <<cmd, caller, pushVars, listed, paramVars, codecVars, callVars>>

(***************************************************************************)
(* One command invocation: the process starts with a fresh wrapper.        *)
(***************************************************************************)
MethodOptions ==
  {NoOptions, ExampleOptions, [ExampleOptions EXCEPT !.params = Raw("{a: 1")]}

FileLists(maxLen) == UNION {[1..n -> ScenarioFiles] : n \in 0..maxLen}

InitCmd ==
  /\ cmd \in {"method", "push", "pull", "pullAll", "deploy"}
  /\ pc = CASE cmd = "method" -> "methodBuild"
            [] cmd = "push" -> "pushResolve"
            [] cmd = "pull" -> "pullFetch"
            [] cmd = "pullAll" -> "pullList"
            [] cmd = "deploy" -> "deployPush"
  /\ caller = "none"
  /\ ClientFresh
  /\ IF cmd = "method"
       THEN /\ schema = FlatSchema
            /\ options \in MethodOptions
            /\ positionalArgs = <<>>
            /\ pstep = "input"
            /\ positional = <<>>
            /\ built = NotBuilt
            /\ RegIdle
       ELSE ParamIdle
  /\ files \in CASE cmd = "push" -> FileLists(MaxFiles)
                 [] cmd = "deploy" -> FileLists(1)
                 [] OTHER -> {<<>>}
  /\ cur = 0
  /\ localData = Undefined
  /\ errorCount = 0
  /\ updatedCount = 0
  /\ skippedCount = 0
  /\ ops = <<>>
  /\ firstError = 0
  /\ force \in IF cmd \in {"push", "deploy"} THEN BOOLEAN ELSE {FALSE}
  /\ remoteData = Undefined
  /\ compared = NotCompared
  /\ listed = 0
  /\ CallIdle
  /\ CodecIdle

NextCmd ==
  \/ MethodBuild \/ MethodCall
  \/ PushResolve \/ PushRead \/ PushFetch \/ PushUpdate \/ PushVerify
  \/ PushNext \/ PushSummary
  \/ PullFetch \/ PullSave \/ PullList \/ PullItem
  \/ DeployPush \/ DeployRun \/ DeployLogs
  \/ Finally

SpecCmd == InitCmd /\ [][NextCmd]_vars

Terminated == pc \in {"done", "exited"}

\* C1: a method command never ends, by process.exit(1) after an error in
\* buildParams or callMethod or by returning after the result is printed,
\* while the connection opened for it is still held.
C1_MethodReleasesBeforeExit ==
  (cmd = "method" /\ Terminated) => live = {}

\* C2: one command invocation establishes at most one connection, and when
\* the command has ended, on success or failure, every connection it
\* established has been closed, once.
C2_OneConnectionClosedOnce ==
  /\ opened <= 1
  /\ Terminated => (live = {} /\ closed = opened)

\* C3: when pushCommand or pullCommand ends the process with a non-zero
\* status, the RPC connection has been released.
C3_FatalPathsRelease ==
  (cmd \in {"push", "pull", "pullAll"} /\ pc = "exited") => live = {}

\* C4: pushCommand works through the batch in list order, one file after
\* another; once a file has failed no later file is read, fetched, updated
\* or verified, and at most one error is counted.
C4_FailFast ==
  (cmd \in {"push", "deploy"}) =>
    /\ errorCount <= 1
    /\ \A k \in 1..(Len(ops) - 1) : ops[k][2] <= ops[k + 1][2]
    /\ firstError > 0 => \A k \in 1..Len(ops) : ops[k][2] <= firstError

\* a batch of three: the first file updated and verified, the second failed,
\* the third never touched
C4_Witness ==
  /\ cmd = "push"
  /\ pc = "exited"
  /\ Len(files) = 3
  /\ updatedCount = 1
  /\ firstError = 2
  /\ errorCount = 1
  /\ \E k \in 1..Len(ops) : ops[k] = <<"update", 1>>


\* the step was made for file i
Made(step, i) == \E k \in 1..Len(ops) : ops[k] = <<step, i>>

\* C19: pushCommand sends scenario.update for a scenario only if
\* compareScenarios(local, remote) was false and either the force flag is set
\* or the user answered yes; when local and remote compare equal it neither
\* prompts nor updates; when the user declines it skips the scenario without
\* error and goes on with the next one.
C19_UpdateOnlyWhenConfirmed ==
  (cmd \in {"push", "deploy"}) =>
    \A i \in 1..Len(files) :
      /\ Made("update", i) => Made("differs", i) /\ (force \/ Made("yes", i))
      /\ Made("equal", i) =>
           ~Made("yes", i) /\ ~Made("no", i) /\ ~Made("update", i)
      /\ Made("no", i) =>
           /\ ~Made("update", i)
           /\ firstError # i
           /\ \A k \in 1..(Len(ops) - 1) :
                ops[k] = <<"no", i>> => ops[k + 1] = <<"read", i + 1>>
           /\ (cur = i /\ (cmd = "push" \/ caller = "deploy")) =>
                pc \notin {"pushUpdate", "pushVerify", "exited"}

\* the first scenario was declined, the second confirmed and updated, and
\* the push ended without an error
C19_Witness ==
  /\ cmd = "push"
  /\ pc = "done"
  /\ ~force
  /\ errorCount = 0
  /\ Made("no", 1)
  /\ Made("yes", 2)
  /\ Made("update", 2)
  /\ skippedCount = 1

\* the update of file i or its verification failed
UpdateFailed(i) ==
  \/ Made("update", i) /\ ~Made("updated", i)
  \/ Made("verify", i) /\ ~Made("nowEqual", i)

\* C28: pushCommand counts a scenario as updated only after scenario.update
\* returned isSuccess and a following scenario.get returned data for which
\* compareScenarios(local, fetched) is true; if the update fails, the
\* verification fetch fails or the fetched scenario still differs, the
\* scenario is counted as an error, the batch stops and the command exits
\* non-zero.
C28_UpdatedOnlyWhenVerified ==
  (cmd \in {"push", "deploy"}) =>
    /\ updatedCount = Cardinality({i \in 1..Len(files) : Made("nowEqual", i)})
    /\ \A i \in 1..Len(files) :
         /\ Made("nowEqual", i) =>
              \E k \in 1..(Len(ops) - 3) :
                /\ ops[k] = <<"update", i>>
                /\ ops[k + 1] = <<"updated", i>>
                /\ ops[k + 2] = <<"verify", i>>
                /\ ops[k + 3] = <<"nowEqual", i>>
         /\ UpdateFailed(i) =>
              /\ errorCount = 1
              /\ firstError = i
              /\ ops[Len(ops)][2] = i
              /\ pc \in {"pushSummary", "exited"}
              /\ Terminated => pc = "exited"

\* the first scenario was updated and verified, the second was updated but
\* still differed when fetched again: one update counted, one error, exit
C28_Witness ==
  /\ cmd = "push"
  /\ pc = "exited"
  /\ updatedCount = 1
  /\ errorCount = 1
  /\ Made("nowEqual", 1)
  /\ Made("updated", 2)
  /\ Made("stillDiffers", 2)
  /\ Len(files) = 3
  /\ ~Made("read", 3)

(***************************************************************************)
(* compareScenarios on its own, over versions of one scenario.             *)
(***************************************************************************)
Reverse(q) == [i \in 1..Len(q) |-> q[Len(q) + 1 - i]]

\* a version of scenario 1: its name, whether and where it carries lastRun,
\* whether it carries iconsIf, and the order of its keys
VersionOf(name, lastRun, icons, reversed) ==
  LET core == << <<"index", Str(Raw("1"))>>, <<"name", Str(Raw(name))>>,
                 <<"type", Str(Raw("LOGIC"))>>, <<"data", Str(Raw("log(1)"))>> >>
      ordered == IF reversed THEN Reverse(core) ELSE core
      run == CASE lastRun = "first" -> << <<"lastRun", Num(7)>> >> \o ordered
               [] lastRun = "last" -> ordered \o << <<"lastRun", Num(8)>> >>
               [] OTHER -> ordered
  IN Obj(IF icons THEN run \o << <<"iconsIf", Arr(<<>>)>> >> ELSE run)

ScenarioVersions ==
  { VersionOf(name, lastRun, icons, reversed) :
      name \in {"Night light", "Old name"},
      lastRun \in {"absent", "first", "last"},
      icons \in BOOLEAN,
      reversed \in BOOLEAN }

InitCompare ==
  /\ localData \in ScenarioVersions
  /\ remoteData \in ScenarioVersions
  /\ compared = NotCompared
  /\ cmd = "none"
  /\ pc = "idle"
  /\ caller = "none"
  /\ ClientFresh
  /\ files = <<>>
  /\ cur = 0
  /\ errorCount = 0
  /\ updatedCount = 0
  /\ skippedCount = 0
  /\ ops = <<>>
  /\ firstError = 0
  /\ force = FALSE
  /\ listed = 0
  /\ CallIdle
  /\ ParamIdle
  /\ CodecIdle

\* compareScenarios(localData, remoteResponse.data)
DoCompare ==
  /\ ~compared.called
  /\ LET call == CompareCall(localData, remoteData)
     IN /\ compared' = [called |-> TRUE, same |-> call.same,
                        local |-> localData, remote |-> remoteData]
        /\ localData' = call.local
        /\ remoteData' = call.remote
  /\ UNCHANGED <<cmd, pc, caller, clientVars, listed, force, paramVars, codecVars, callVars>>
  /\ UNCHANGED <<files, cur, errorCount, updatedCount, skippedCount, ops, firstError>>

NextCompare == DoCompare

SpecCompare == InitCompare /\ [][NextCompare]_vars

IgnoredFields == <<"lastRun", "runCount", "error", "iconsThen", "iconsIf">>

\* C17: compareScenarios(local, remote) returns true if and only if the two
\* objects are deep-equal once lastRun, runCount, error, iconsThen and
\* iconsIf are removed from both.
C17_TrueIffDeepEqual ==
  compared.called =>
    (compared.same <=> DeepEqual(DeleteAll(compared.local, IgnoredFields),
                                 DeleteAll(compared.remote, IgnoredFields)))

\* the entries of o other than the ignored fields, as they are written
OtherEntries(o) ==
  SelectSeq(o.v, LAMBDA e : e[1] \notin SeqRange(IgnoredFields))

\* C18: compareScenarios(a, a) is true for every scenario a;
\* compareScenarios(a, b) is true whenever a and b differ only in the
\* presence or value of lastRun, runCount, error, iconsThen or iconsIf (what
\* else they are written with is the same); and the call leaves its two
\* arguments as they were.
C18_IgnoresRuntimeFields ==
  compared.called =>
    /\ compared.local = compared.remote => compared.same
    /\ OtherEntries(compared.local) = OtherEntries(compared.remote)
         => compared.same
    /\ localData = compared.local
    /\ remoteData = compared.remote

\* two versions that differ in lastRun and in iconsIf, and in nothing else,
\* were compared
C18_Witness ==
  /\ compared.called
  /\ compared.same
  /\ Has(compared.local, "lastRun") /\ ~Has(compared.remote, "lastRun")
  /\ ~Has(compared.local, "iconsIf") /\ Has(compared.remote, "iconsIf")

\* C26: pull followed by push with no local edit and an unchanged remote is
\* a no-op: after extractScenarioCode saved the scenario, injectScenarioCode
\* on that directory returns a scenario for which compareScenarios(injected,
\* remote) is true, so that push asks no confirmation and sends no
\* scenario.update.
C26_PullThenPushNoOp ==
  (cstep = "injected" /\ extracted.ok)
    => /\ injected.ok
       /\ LET same == CompareCall(injected.v, scenarioData).same
          IN /\ same
             /\ Answers(same) = {"notAsked"}
             /\ \A shouldUpdate \in BOOLEAN : ~GoesOnToUpdate(same, shouldUpdate)

(***************************************************************************)
(* The client wrapper used on its own: getClient, callMethod and           *)
(* disconnect called one after another (every caller awaits each call), in *)
(* any order, with any profile name.                                       *)
(***************************************************************************)
MaxCalls == 5

\* profileName: not passed, or the name of a profile
ProfileNames == {"undefined", "home", "office"}

\* a disconnect() that lets the error of close() through
DisconnectRethrows(closeThrows) ==
  IF client # 0 /\ closeThrows THEN "threw" ELSE "returned"

\* disconnect(): the error of close() is caught and ignored
DisconnectOutcome(closeThrows) == "returned"

Call(op, ok, returned, profile, closeThrew) ==
  [n |-> lastCall.n + 1, op |-> op, ok |-> ok, returned |-> returned,
   profile |-> profile, closeThrew |-> closeThrew]

\* configManager.getCredentials(profileName) for each Sprut object created
CredentialsAfter(g, profile) ==
  IF g.created > created THEN Append(credentials, profile) ELSE credentials

InitClient ==
  /\ CmdIdle
  /\ ParamIdle
  /\ CodecIdle

\* client.getClient(profileName)
WrapperGetClient ==
  /\ lastCall.n < MaxCalls
  /\ \E profile \in ProfileNames, conn \in ConnectOutcomes :
       LET g == GetClient(conn)
       IN /\ ClientAfter(g)
          /\ lastCall' = Call("getClient", g.ok, IF g.ok THEN g.client ELSE 0,
                              profile, FALSE)
          /\ credentials' = CredentialsAfter(g, profile)
  /\ UNCHANGED <<cmd, pc, caller, pushVars, listed, configVars, paramVars, codecVars>>

\* client.callMethod(methodName, params, profileName)
WrapperCallMethod ==
  /\ lastCall.n < MaxCalls
  /\ \E profile \in ProfileNames, call \in CallOutcomes :
       LET r == CallMethod(call)
       IN /\ ClientAfter(r.wrapper)
          /\ lastCall' = Call("callMethod", r.ok,
                              IF r.wrapper.ok THEN r.wrapper.client ELSE 0,
                              profile, FALSE)
          /\ credentials' = CredentialsAfter(r.wrapper, profile)
  /\ UNCHANGED <<cmd, pc, caller, pushVars, listed, configVars, paramVars, codecVars>>

\* client.disconnect(); close() may throw
WrapperDisconnect ==
  /\ lastCall.n < MaxCalls
  /\ \E closeThrows \in BOOLEAN :
       /\ Disconnect
       /\ lastCall' = Call("disconnect", DisconnectOutcome(closeThrows) = "returned",
                           0, "undefined", client # 0 /\ closeThrows)
  /\ UNCHANGED <<cmd, pc, caller, pushVars, listed, credentials, configVars, paramVars,
                 codecVars>>

NextClient == WrapperGetClient \/ WrapperCallMethod \/ WrapperDisconnect

SpecClient == InitClient /\ [][NextClient]_vars

\* the step is a call of op on the wrapper
IsCall(op) == lastCall'.n = lastCall.n + 1 /\ lastCall'.op = op

\* C24: disconnect() never throws; without a client it does nothing; with
\* one it calls close(), swallows its error, and leaves client = null and
\* isConnected = false, so that a second disconnect() calls no close() and a
\* later getClient that connects opens a fresh connection.
C24_DisconnectIdempotent ==
  [][/\ IsCall("disconnect") =>
          /\ lastCall'.ok
          /\ client' = 0
          /\ isConnected' = FALSE
          /\ client = 0 =>
               UNCHANGED <<live, created, opened, closed, closeCalls>>
          /\ client # 0 =>
               /\ closeCalls' = closeCalls + 1
               /\ live' = live \ {client}
     /\ (/\ IsCall("getClient")
         /\ lastCall.n > 0
         /\ lastCall.op = "disconnect"
         /\ lastCall'.ok) =>
          /\ created' = created + 1
          /\ opened' = opened + 1
          /\ client' = created'
          /\ lastCall'.returned = created'
          /\ created' \in live']_vars

\* a connection was opened, disconnect() closed it, a second disconnect()
\* closed nothing, and getClient opened a second connection
C24_Witness ==
  /\ lastCall.n >= 4
  /\ lastCall.op = "getClient"
  /\ lastCall.ok
  /\ disconnects = 2
  /\ closeCalls = 1
  /\ closed = 1
  /\ opened = 2
  /\ client = 2
  /\ live = {2}

\* disconnect() returned although close() threw, and the fields are reset
C24_WitnessSwallowed ==
  /\ lastCall.n > 0
  /\ lastCall.op = "disconnect"
  /\ lastCall.closeThrew
  /\ lastCall.ok
  /\ client = 0
  /\ ~isConnected
  /\ closeCalls = 1
  /\ opened = 1

\* C29: once the wrapper holds an established connection, every later
\* getClient or callMethod uses that same connection whatever profile name
\* is passed, until disconnect(); a new connection, with the credentials of
\* the profile given, is created only when client is null or isConnected is
\* false; and isConnected = true implies that client is non-null.
C29_ConnectionReused ==
  [][/\ isConnected' => client' # 0
     /\ (IsCall("getClient") \/ IsCall("callMethod")) =>
          /\ (client # 0 /\ isConnected) =>
               /\ lastCall'.returned = client
               /\ client' = client
               /\ isConnected'
               /\ UNCHANGED <<live, created, opened, closed, credentials>>
          /\ created' # created =>
               /\ client = 0 \/ ~isConnected
               /\ created' = created + 1
               /\ Len(credentials') = created'
               /\ credentials'[created'] = lastCall'.profile]_vars

\* the connection made for profile home was used again by a call that named
\* profile office
C29_Witness ==
  /\ lastCall.n >= 2
  /\ lastCall.op = "callMethod"
  /\ lastCall.ok
  /\ lastCall.profile = "office"
  /\ lastCall.returned = 1
  /\ client = 1
  /\ isConnected
  /\ created = 1
  /\ opened = 1
  /\ credentials = <<"home">>
  /\ disconnects = 0

(***************************************************************************)
(* The ConfigManager (config/manager.ts).  profiles is known by its own    *)
(* keys in insertion order; config.profiles[name] also finds the           *)
(* properties every object inherits from Object.prototype.                 *)
(***************************************************************************)
MaxConfigCalls == 4

\* the names given to the commands; "constructor" is the name of a property
\* of Object.prototype
ConfigNames == {"home", "office", "constructor"}

InheritedNames == {"constructor"}

NoProfile == "null"

Config(profiles, currentProfile) ==
  [loaded |-> TRUE, profiles |-> profiles, currentProfile |-> currentProfile]

NoConfig == [loaded |-> FALSE]

NoConfigFile == [exists |-> FALSE]

ConfigFile(cfg) ==
  [exists |-> TRUE, profiles |-> cfg.profiles, currentProfile |-> cfg.currentProfile]

\* loadConfig: the cached config, else config.json, else the default config
LoadConfig ==
  IF config.loaded THEN config
  ELSE IF configFile.exists
    THEN Config(configFile.profiles, configFile.currentProfile)
    ELSE Config(<<>>, NoProfile)

\* config.profiles[profileName] is truthy
HasProfileEntry(cfg, name) ==
  name \in SeqRange(cfg.profiles) \/ name \in InheritedNames

\* config.profiles[profileName] = {...}: a known key keeps its place
StoreProfile(profiles, name) ==
  IF name \in SeqRange(profiles) THEN profiles ELSE Append(profiles, name)

\* the callback of setCredentials
SetCredentials(cfg, name) ==
  Config(StoreProfile(cfg.profiles, name),
         IF cfg.currentProfile = NoProfile THEN name ELSE cfg.currentProfile)

\* the callback of setCurrentProfile, after its check
SetCurrentProfile(cfg, name) == Config(cfg.profiles, name)

\* the callback of deleteProfile, after its check
DeleteProfile(cfg, name) ==
  LET remainingProfiles == SelectSeq(cfg.profiles, LAMBDA p : p # name)
  IN Config(remainingProfiles,
            IF cfg.currentProfile = name
              THEN IF Len(remainingProfiles) > 0
                     THEN remainingProfiles[1] ELSE NoProfile
              ELSE cfg.currentProfile)

ConfigCall(op, name, ok) ==
  [n |-> configCall.n + 1, op |-> op, name |-> name, ok |-> ok]

\* _withConfig: loadConfig, the callback, this.config = config, saveConfig;
\* the callback may throw before it changes anything, saveConfig may throw
\* after the config was changed in memory
WithConfig(op, name, accepted, after) ==
  IF ~accepted
    THEN /\ config' = LoadConfig
         /\ configCall' = ConfigCall(op, name, FALSE)
         /\ UNCHANGED configFile
    ELSE /\ config' = after
         /\ \E saveFails \in BOOLEAN :
              /\ configFile' = IF saveFails THEN configFile ELSE ConfigFile(after)
              /\ configCall' = ConfigCall(op, name, ~saveFails)

ConfigFrame ==
  /\ UNCHANGED <<cmd, pc, caller, clientVars, pushVars, listed, lastCall, credentials>>
  /\ UNCHANGED <<paramVars, codecVars>>

InitConfig ==
  /\ CmdIdle
  /\ ParamIdle
  /\ CodecIdle

\* setCredentials(profileName, ...): keytar.setPassword may throw
DoSetCredentials ==
  /\ configCall.n < MaxConfigCalls
  /\ \E name \in ConfigNames, keytarThrows \in BOOLEAN :
       WithConfig("setCredentials", name, ~keytarThrows,
                  SetCredentials(LoadConfig, name))
  /\ ConfigFrame

\* setCurrentProfile(profileName): throws when the profile is not found
DoSetCurrentProfile ==
  /\ configCall.n < MaxConfigCalls
  /\ \E name \in ConfigNames :
       WithConfig("setCurrentProfile", name, HasProfileEntry(LoadConfig, name),
                  SetCurrentProfile(LoadConfig, name))
  /\ ConfigFrame

\* deleteProfile(profileName): throws when the profile is not found
DoDeleteProfile ==
  /\ configCall.n < MaxConfigCalls
  /\ \E name \in ConfigNames :
       WithConfig("deleteProfile", name, HasProfileEntry(LoadConfig, name),
                  DeleteProfile(LoadConfig, name))
  /\ ConfigFrame

\* clearAllData: the passwords are deleted, config.json is unlinked (an
\* error is ignored), this.config = null
DoClearAllData ==
  /\ configCall.n < MaxConfigCalls
  /\ \E unlinkFails \in BOOLEAN :
       configFile' = IF unlinkFails THEN configFile ELSE NoConfigFile
  /\ config' = NoConfig
  /\ configCall' = ConfigCall("clearAllData", NoProfile, TRUE)
  /\ ConfigFrame

\* the next invocation of the program starts without a cached config
NewProcess ==
  /\ config.loaded
  /\ config' = NoConfig
  /\ UNCHANGED <<configFile, configCall>>
  /\ ConfigFrame

NextConfig ==
  \/ DoSetCredentials \/ DoSetCurrentProfile \/ DoDeleteProfile
  \/ DoClearAllData \/ NewProcess

SpecConfig == InitConfig /\ [][NextConfig]_vars

IsConfigCall(op) == configCall'.n = configCall.n + 1 /\ configCall'.op = op

\* C30: after any sequence of setCredentials, setCurrentProfile,
\* deleteProfile and clearAllData, calls that fail included, the in-memory
\* config has currentProfile either null or the name of a profile present
\* in profiles; the first profile stored becomes current; and deleting the
\* current profile moves currentProfile to the first remaining profile or
\* to null.
C30_CurrentProfileValid ==
  [][/\ config'.loaded =>
          \/ config'.currentProfile = NoProfile
          \/ config'.currentProfile \in SeqRange(config'.profiles)
     /\ (/\ IsConfigCall("setCredentials")
         /\ LoadConfig.profiles = <<>>
         /\ config'.profiles # <<>>) =>
          config'.currentProfile = configCall'.name
     /\ (/\ IsConfigCall("deleteProfile")
         /\ LoadConfig.currentProfile = configCall'.name
         /\ configCall'.name \in SeqRange(LoadConfig.profiles)) =>
          config'.currentProfile =
            IF config'.profiles = <<>> THEN NoProfile ELSE config'.profiles[1]]_vars

====
